---- MODULE Spec2Model ----
(***************************************************************************)
(* Model of the PrivaChain backend: the three browser session services     *)
(* (working_browser_service.py, browser_service.py,                        *)
(* advanced_browser_service.py) and the content resolver of server.py.     *)
(*                                                                         *)
(* A service instance is a session map, an is_running flag and the         *)
(* cleanup_expired_sessions tasks it has started.  Coroutines are modelled *)
(* as calls that move from one suspension point (a real await on network,  *)
(* engine or timer) to the next; the code between two suspension points    *)
(* is one atomic step, as it is under asyncio.                             *)
(*                                                                         *)
(* Time is the wall clock in minutes.  It advances while the event loop is *)
(* idle, by one reaper period at a time, and never past the wake-up time   *)
(* of a sleeping cleanup task (asyncio runs a timer that is due).  Every   *)
(* engine and network wait of a call is bounded by a timeout of seconds,   *)
(* so no call stays suspended across a step of the clock.                  *)
(***************************************************************************)
EXTENDS Integers, Sequences, FiniteSets, TLC

\* ------------------------------------------------------------------ bounds
MaxSessions == 2
MaxCalls == 2
MaxOps == 3
MaxTime == 35
MaxReapers == 2
MaxLen == 3
MaxPopups == 2

\* ------------------------------------------------------- program constants
\* is_expired(timeout_minutes=30)
TimeoutMinutes == 30
\* the cleanup loops sleep 300 seconds: "Check every 5 minutes"
ScanMinutes == 5
\* `response.status_code == 200`
HttpOk == 200

\* ------------------------------------------------------------------ state
VARIABLES
    svc,         \* which service class this instance is
    sessions,    \* self.sessions: session id -> session object
    is_running,  \* self.is_running
    browser,     \* BrowserRenderingService.browser: "none", "open", "closed"
    nextId,      \* number of uuid4() ids handed out so far
    calls,       \* in-flight and just-returned coroutine calls of the API
    reapers,     \* cleanup_expired_sessions tasks
    stopper,     \* the stop() coroutine of BrowserRenderingService
    now,         \* datetime.utcnow(), in minutes
    releases,    \* per id: completed release calls on the primary handle
    removed,     \* ids that were in the session map and were deleted
    ops,         \* number of API calls the clients have issued
    rurl,        \* resolver: the locator being resolved
    rpc,         \* resolver: position of the resolve call
    rlog,        \* resolver: adapter calls made, in order, with what came back
    rres,        \* resolver: outcome of the resolve call
    reply,       \* response of the endpoint that wraps the call
    adv_sessions, \* advanced_browser_service.sessions in the API process
    leaked,      \* engine resources a failed create left unreleased
    cosmos,      \* the CosmosService object, its calls, and the chain
    cache        \* the content cache collection of the database

vars == <<svc, sessions, is_running, browser, nextId, calls, reapers,
          stopper, now, releases, removed, ops, rurl, rpc, rlog, rres,
          reply, adv_sessions, leaked, cosmos, cache>>

svars == <<sessions, is_running, browser, nextId, calls, reapers,
           stopper, now, releases, removed, ops, adv_sessions, leaked,
           cosmos>>

\* what no action of a session service changes
apart == <<svc, rurl, rpc, rlog, rres, reply, adv_sessions, cosmos, cache>>

\* what no action of a session service changes, create_session apart
fixed == <<apart, leaked>>

\* the instances that run the code of WorkingBrowserService: the service on
\* its own, and the API process, whose session endpoints use that service
WorkingHosts == {"working", "api"}

SessionIds == 1..MaxSessions
CallIds == 1..MaxCalls
ReaperIds == 1..MaxReapers

Range(s) == {s[i] : i \in 1..Len(s)}

Min(S) == CHOOSE i \in S : \A j \in S : i <= j

\* ----------------------------------------------------------------- strings
\* A locator is a sequence of tokens; a token is a run of characters that
\* the code only ever tests as a whole (a prefix, a suffix, a bracket).
SchemeTokens == {"ipfs://", "http://", "https://"}

\* urlparse(url).netloc: what follows "scheme://" up to the next "/".
RECURSIVE UpToSlash(_)
UpToSlash(s) ==
    IF s = <<>> \/ Head(s) = "/" THEN <<>>
    ELSE <<Head(s)>> \o UpToSlash(Tail(s))

Netloc(url) ==
    IF Len(url) >= 1 /\ url[1] \in SchemeTokens
    THEN UpToSlash(Tail(url))
    ELSE <<>>

\* urlparse(url) raises ValueError("Invalid IPv6 URL") when the netloc has
\* one square bracket without the other.
UrlparseRaises(url) ==
    LET n == Range(Netloc(url)) IN
    \/ ("[" \in n /\ "]" \notin n)
    \/ ("]" \in n /\ "[" \notin n)

\* The addresses the navigation calls are given.
NavUrls == { <<"https://", "a.example", "/", "page">>,
             <<"http://", "[">> }

NoUrl == <<>>

\* ---------------------------------------------------------------- sessions
\* WorkingBrowserSession.__init__ / BrowserSession.__init__ /
\* AdvancedBrowserSession.__init__
\* (and, for an AdvancedBrowserSession, the state of its driver: the popup
\* windows the engine has open, in the order they were opened, how many it
\* has opened so far, the window that has the focus (0 is main_window) and
\* whether quit() has completed)
NewSession ==
    [last_activity |-> now, current_url |-> NoUrl, current_content |-> "",
     screenshots |-> <<>>, popup_windows |-> <<>>, windows |-> <<>>,
     opened |-> 0, focus |-> 0, driver |-> "open"]

\* a membership test that lets every id through
SessionExistsMut(sid) == TRUE

\* `session_id in self.sessions`
SessionExists(sid) == sid \in DOMAIN sessions

\* session.update_activity()
UpdateActivity(m, sid) ==
    IF sid \in DOMAIN m
    THEN [m EXCEPT ![sid].last_activity = now]
    ELSE m

\* session.is_expired(): strictly more than the timeout
IsExpired(s) == now - s.last_activity > TimeoutMinutes

\* del self.sessions[sid]
Without(m, sid) == [i \in DOMAIN m \ {sid} |-> m[i]]

\* self.sessions[sid] = session
With(m, sid, s) == [i \in DOMAIN m \cup {sid} |-> IF i = sid THEN s ELSE m[i]]

\* ------------------------------------------------------------------- calls
\* `found` records whether the id was in the session map when the call
\* started, `again` whether a close of the same id that had found the session
\* had already returned by then; `attempted` lists the strategies or engine
\* calls it has issued.
\* `seen` is what a read of the working service put in its response,
\* `status` the response.status_code its method 2 got (0: none), `popup`
\* the windows that the popup_screenshot and the popup_title and popup_url
\* of a popup screenshot action were taken from (0: the main window).
NoResult == [success |-> FALSE, method |-> "", error |-> ""]

\* the 'screenshot' entry of the result of the strategy `m`: the image that
\* strategy made of the page
Screenshot(m) == [by |-> m]

\* the 'url', 'content' and 'screenshot' entries of get_page_content's
\* response for the session object `s`
Seen(s) ==
    [url |-> s.current_url, content |-> s.current_content,
     screenshot |-> IF s.screenshots # <<>>
                    THEN s.screenshots[Len(s.screenshots)]
                    ELSE Screenshot("")]

IdleCall ==
    [op |-> "idle", sid |-> 0, url |-> NoUrl, url0 |-> NoUrl, pc |-> "idle",
     found |-> FALSE,
     again |-> FALSE, refault |-> FALSE, attempted |-> <<>>,
     outcomes |-> <<>>, status |-> 0, result |-> NoResult,
     seen |-> [url |-> NoUrl, content |-> "",
               screenshot |-> Screenshot("")],
     popup |-> [shot |-> 0, info |-> 0]]

NotFoundResult == [success |-> FALSE, method |-> "", error |-> "not_found"]
ErrorResult == [success |-> FALSE, method |-> "", error |-> "exception"]
OkResult(m) == [success |-> TRUE, method |-> m, error |-> ""]

ClosedBefore(sid) ==
    \E d \in CallIds :
        /\ calls[d].op = "close"
        /\ calls[d].pc = "done"
        /\ calls[d].sid = sid
        /\ calls[d].found

\* a navigate or interact on the id has returned a failed result that came
\* from an except branch
FaultedBefore(sid) ==
    \E d \in CallIds :
        /\ calls[d].op \in {"navigate", "interact"}
        /\ calls[d].pc = "done"
        /\ calls[d].sid = sid
        /\ calls[d].result = ErrorResult

\* (`refault`: a navigate or interact that starts after FaultedBefore;
\* `url0`: the session's current_url when the call started)
StartCall(o, sid, url) ==
    [IdleCall EXCEPT !.op = o, !.sid = sid, !.url = url,
                     !.url0 = IF sid \in DOMAIN sessions
                              THEN sessions[sid].current_url ELSE NoUrl,
                     !.found = (sid \in DOMAIN sessions),
                     !.again = (o = "close" /\ ClosedBefore(sid)),
                     !.refault = (o \in {"navigate", "interact"}
                                  /\ FaultedBefore(sid))]

\* an except branch that closes the session it failed on
AfterFaultMut(m, sid) == [i \in DOMAIN m \ {sid} |-> m[i]]

\* the except branch of navigate_to_url and of interact_with_page: the fault
\* is logged and returned as a failed result, the session map is left alone
AfterFault(m, sid) == m

Done(cl, res) == [cl EXCEPT !.pc = "done", !.result = res]

\* the order in which navigate_to_url tries its methods
ChainOrder == <<"javascript_rendering", "advanced_proxy", "synthetic_page">>

\* a chain that goes on to the next method whatever the result was
FallsThroughMut(result) == TRUE

\* `if result['success']: return result` -- otherwise fall through to the
\* next method.
FallsThrough(result) == ~result.success

\* session.current_url = url; session.current_content = content (the session
\* object is written whether or not it is still in the map; only a session
\* still in the map is visible).
SetPage(m, sid, url, content) ==
    IF sid \in DOMAIN m
    THEN [m EXCEPT ![sid].current_url = url, ![sid].current_content = content]
    ELSE m

\* a call that has started and has not returned
InFlight(c) == calls[c].pc \notin {"idle", "done"}

\* no coroutine of the working service is inside the synchronous
\* `session.html_session.get(...)`, which keeps the thread of the event loop
\* until the response is there
LoopFree == \A c \in CallIds : calls[c].pc # "s2get"

NoCallInFlight == \A c \in CallIds : ~InFlight(c)

\* the record a new call is written to: the first that holds no call in
\* progress (the record of a call that has returned is overwritten)
Free(c) ==
    /\ ~InFlight(c)
    /\ \A d \in CallIds : d < c => InFlight(d)

\* one more API call issued by a client
Issue == ops < MaxOps /\ ops' = ops + 1

\* a cleanup task or a stop() that is not running
\* (`logged`: the ids whose close_session logged an error in the last scan)
NoTask == [pc |-> "none", wake |-> 0, queue |-> {}, cur |-> 0, logged |-> {}]

\* the slot that the task made by `asyncio.create_task(
\* self.cleanup_expired_sessions())` takes: the lowest free one.  Nothing in
\* initialize() looks for a task that is already there; the second slot is
\* explored for the working service only.
FreeReaper(r) ==
    /\ reapers[r].pc = "none"
    /\ \A q \in ReaperIds :
          q < r => reapers[q].pc # "none" /\ svc \in WorkingHosts

\* =================================================== WorkingBrowserService

\* render_with_javascript: returns a success result or raises.  `out` is the
\* outcome of the awaits: the fetch and render raising ("raises"), or only the
\* final asession.close() raising ("close_raises").  The title and
\* html_to_screenshot both call urlparse(url).
JsOutcomes == {"ok", "raises", "close_raises"}

RenderWithJavascript(url, out) ==
    IF out = "ok" /\ ~UrlparseRaises(url)
    THEN OkResult("javascript_rendering")
    ELSE ErrorResult

\* the session fields are assigned before asession.close() is awaited
JsStoresPage(url, out) == out # "raises" /\ ~UrlparseRaises(url)

\* render_with_advanced_proxy: success only on status 200 with a document
\* that has a head; `status` 0 stands for a transport error.
RenderWithAdvancedProxy(url, status, hasHead) ==
    IF status = HttpOk /\ hasHead /\ ~UrlparseRaises(url)
    THEN OkResult("advanced_proxy")
    ELSE ErrorResult

\* create_synthetic_page: urlparse inside the try; create_visual_screenshot
\* and html_to_screenshot absorb their own failures (pilFails, soupFails) and
\* fall back to text, so only the address parse reaches the except branch.
CreateSyntheticPage(url, pilFails, soupFails) ==
    IF UrlparseRaises(url)
    THEN ErrorResult
    ELSE OkResult("synthetic_page")

ProxyStatuses == {0, 200, 204, 404}

W_Initialize(r) ==
    /\ svc \in WorkingHosts
    /\ LoopFree
    /\ Issue
    /\ FreeReaper(r)
    /\ is_running' = TRUE
    /\ reapers' = [reapers EXCEPT ![r] = [NoTask EXCEPT !.pc = "ready",
                                                        !.wake = now]]
    /\ UNCHANGED <<fixed, sessions, browser, nextId, calls, stopper, now,
                   releases, removed>>

W_CreateSession ==
    /\ svc \in WorkingHosts
    /\ LoopFree
    /\ Issue
    /\ nextId < MaxSessions
    /\ nextId' = nextId + 1
    /\ sessions' = With(sessions, nextId + 1, NewSession)
    /\ UNCHANGED <<fixed, is_running, browser, calls, reapers, stopper, now,
                   releases, removed>>

\* navigate_to_url up to the first suspension inside render_with_javascript
W_NavigateStart(c, sid, url) ==
    /\ svc \in WorkingHosts
    /\ LoopFree
    /\ Issue
    /\ Free(c)
    /\ IF SessionExists(sid)
       THEN /\ sessions' = UpdateActivity(sessions, sid)
            /\ calls' = [calls EXCEPT ![c] =
                  [StartCall("navigate", sid, url) EXCEPT
                      !.pc = "s1", !.attempted = <<ChainOrder[1]>>]]
       ELSE /\ sessions' = sessions
            /\ calls' = [calls EXCEPT ![c] =
                  Done(StartCall("navigate", sid, url), NotFoundResult)]
    /\ UNCHANGED <<fixed, is_running, browser, nextId, reapers, stopper, now,
                   releases, removed>>

\* method 1 up to `await asession.close()`: the page is fetched, rendered
\* and stored in the session, or a call before the store raises and method 2
\* starts and suspends in its sleep
W_NavigateS1(c, out) ==
    /\ svc \in WorkingHosts
    /\ LoopFree
    /\ calls[c].pc = "s1"
    /\ out # "close_raises"
    /\ LET cl == calls[c] IN
       IF JsStoresPage(cl.url, out)
       THEN /\ sessions' = SetPage(sessions, cl.sid, cl.url, ChainOrder[1])
            /\ calls' = [calls EXCEPT ![c].pc = "s1c"]
       ELSE /\ sessions' = sessions
            /\ calls' = [calls EXCEPT ![c].pc = "s2",
                            ![c].outcomes = Append(@, FALSE),
                            ![c].attempted = Append(@, ChainOrder[2])]
    /\ UNCHANGED <<fixed, is_running, browser, nextId, reapers, stopper, now,
                   releases, removed, ops>>

\* asession.close() returns and method 1 returns its result, or it raises
\* and method 2 starts and suspends in its sleep
W_NavigateS1Close(c, out) ==
    /\ svc \in WorkingHosts
    /\ LoopFree
    /\ calls[c].pc = "s1c"
    /\ out # "raises"
    /\ LET res == RenderWithJavascript(calls[c].url, out) IN
       IF FallsThrough(res)
       THEN calls' = [calls EXCEPT ![c].pc = "s2",
                         ![c].outcomes = Append(@, res.success),
                         ![c].attempted = Append(@, ChainOrder[2])]
       ELSE calls' = [calls EXCEPT ![c].pc = "done",
                         ![c].outcomes = Append(@, res.success),
                         ![c].result = res]
    /\ UNCHANGED <<fixed, sessions, is_running, browser, nextId, reapers,
                   stopper, now, releases, removed, ops>>

\* the sleep of method 2 is over: the coroutine enters
\* `session.html_session.get(url, headers=headers, timeout=30)`
W_NavigateS2(c) ==
    /\ svc \in WorkingHosts
    /\ LoopFree
    /\ calls[c].pc = "s2"
    /\ calls' = [calls EXCEPT ![c].pc = "s2get"]
    /\ UNCHANGED <<fixed, sessions, is_running, browser, nextId, reapers,
                   stopper, now, releases, removed, ops>>

\* the get returns or raises and method 2 finishes; on failure method 3 runs
\* to the end without suspending
W_NavigateS2Get(c, status, hasHead, pilFails, soupFails) ==
    /\ svc \in WorkingHosts
    /\ calls[c].pc = "s2get"
    /\ LET cl == calls[c]
           res2 == RenderWithAdvancedProxy(cl.url, status, hasHead)
           res3 == CreateSyntheticPage(cl.url, pilFails, soupFails)
           m2 == IF res2.success
                 THEN SetPage(sessions, cl.sid, cl.url, res2.method)
                 ELSE sessions
       IN IF FallsThrough(res2)
          THEN /\ calls' = [calls EXCEPT ![c].pc = "done",
                               ![c].status = status,
                               ![c].outcomes = Append(Append(@, res2.success),
                                                      res3.success),
                               ![c].attempted = Append(@, ChainOrder[3]),
                               ![c].result = res3]
               /\ sessions' = IF res3.success
                              THEN SetPage(m2, cl.sid, cl.url, res3.method)
                              ELSE m2
          ELSE /\ calls' = [calls EXCEPT ![c].pc = "done",
                               ![c].status = status,
                               ![c].outcomes = Append(@, res2.success),
                               ![c].result = res2]
               /\ sessions' = m2
    /\ UNCHANGED <<fixed, is_running, browser, nextId, reapers, stopper, now,
                   releases, removed, ops>>

\* get_page_content: no suspension point
W_GetPageContent(c, sid) ==
    /\ svc \in WorkingHosts
    /\ LoopFree
    /\ Issue
    /\ Free(c)
    /\ sessions' = IF SessionExists(sid) THEN UpdateActivity(sessions, sid)
                   ELSE sessions
    /\ calls' = [calls EXCEPT ![c] =
          IF SessionExists(sid)
          THEN [Done(StartCall("read", sid, NoUrl), OkResult("")) EXCEPT
                   !.seen = Seen(sessions[sid])]
          ELSE Done(StartCall("read", sid, NoUrl), NotFoundResult)]
    /\ UNCHANGED <<fixed, is_running, browser, nextId, reapers, stopper, now,
                   releases, removed>>

\* a loop over the ids of E, in id order, that the first failing close ends
W_CloseAllMut(E, F) ==
    LET gone == {i \in (E \cap DOMAIN sessions) \ F :
                    \A f \in F : i < f} IN
    /\ sessions' = [i \in DOMAIN sessions \ gone |-> sessions[i]]
    /\ releases' = [i \in SessionIds |->
                       IF i \in gone THEN releases[i] + 1 ELSE releases[i]]
    /\ removed' = removed \cup gone

\* close_session applied to the ids of E one after the other; the release
\* call raises for the ids of F, and the except branch then skips the del.
W_CloseAll(E, F) ==
    LET gone == (E \cap DOMAIN sessions) \ F IN
    /\ sessions' = [i \in DOMAIN sessions \ gone |-> sessions[i]]
    /\ releases' = [i \in SessionIds |->
                       IF i \in gone THEN releases[i] + 1 ELSE releases[i]]
    /\ removed' = removed \cup gone

\* DELETE /browser/{session_id}: close_session, then {"success": True}
W_CloseSession(c, sid, fails) ==
    /\ svc \in WorkingHosts
    /\ LoopFree
    /\ Issue
    /\ Free(c)
    /\ W_CloseAll({sid}, IF fails THEN {sid} ELSE {})
    /\ calls' = [calls EXCEPT ![c] =
          Done(StartCall("close", sid, NoUrl), OkResult(""))]
    /\ UNCHANGED <<fixed, is_running, browser, nextId, reapers, stopper, now>>

\* one pass of the cleanup loop: no await inside close_session suspends, so
\* the scan and the closes are one step, followed by the 5 minute sleep
W_Cleanup(r, F) ==
    /\ svc \in WorkingHosts
    /\ LoopFree
    /\ reapers[r].pc \in {"ready", "sleep"}
    /\ now >= reapers[r].wake
    /\ IF is_running
       THEN LET E == {i \in DOMAIN sessions : IsExpired(sessions[i])} IN
            /\ F \subseteq E
            /\ W_CloseAll(E, F)
            /\ reapers' = [reapers EXCEPT ![r].pc = "sleep",
                                          ![r].wake = now + ScanMinutes,
                                          ![r].logged = F]
       ELSE /\ F = {}
            /\ reapers' = [reapers EXCEPT ![r] = NoTask]
            /\ UNCHANGED <<sessions, releases, removed>>
    /\ UNCHANGED <<fixed, is_running, browser, nextId, calls, stopper, now,
                   ops>>

\* stop(): is_running = False, then close every session
W_Stop(F) ==
    /\ svc \in WorkingHosts
    /\ LoopFree
    /\ Issue
    /\ F \subseteq DOMAIN sessions
    /\ is_running' = FALSE
    /\ W_CloseAll(DOMAIN sessions, F)
    /\ UNCHANGED <<fixed, browser, nextId, calls, reapers, stopper, now>>

WorkingNext ==
    \/ \E r \in ReaperIds : W_Initialize(r)
    \/ W_CreateSession
    \/ \E c \in CallIds, sid \in SessionIds, url \in NavUrls :
          W_NavigateStart(c, sid, url)
    \/ \E c \in CallIds, out \in JsOutcomes : W_NavigateS1(c, out)
    \/ \E c \in CallIds, out \in JsOutcomes : W_NavigateS1Close(c, out)
    \/ \E c \in CallIds : W_NavigateS2(c)
    \/ \E c \in CallIds, status \in ProxyStatuses, hasHead \in BOOLEAN,
          pilFails \in BOOLEAN, soupFails \in BOOLEAN :
          W_NavigateS2Get(c, status, hasHead, pilFails, soupFails)
    \/ \E c \in CallIds, sid \in SessionIds : W_GetPageContent(c, sid)
    \/ \E c \in CallIds, sid \in SessionIds, fails \in BOOLEAN :
          W_CloseSession(c, sid, fails)
    \/ \E r \in ReaperIds, F \in SUBSET SessionIds : W_Cleanup(r, F)
    \/ \E F \in SUBSET SessionIds : W_Stop(F)


\* ================================================= BrowserRenderingService

\* session.current_url = url
SetUrl(m, sid, url) ==
    IF sid \in DOMAIN m THEN [m EXCEPT ![sid].current_url = url] ELSE m

\* The rest of close_session after `await session.context.close()` returns
\* (ok) or raises: `del self.sessions[session_id]`, which raises KeyError
\* into the except branch when another close removed the entry meanwhile.
B_AfterRelease(m, sid, ok) ==
    IF ok /\ sid \in DOMAIN m THEN Without(m, sid) ELSE m

B_Released(sid, ok) ==
    [i \in SessionIds |->
        IF i = sid /\ ok THEN releases[i] + 1 ELSE releases[i]]

\* A loop `for session_id in ids: await self.close_session(session_id)`:
\* close_session returns without suspending for an id that is not in the
\* map, and suspends in context.close() for the first id that is.
BeginNext(m, q) ==
    LET live == {i \in q : i \in DOMAIN m} IN
    IF live = {} THEN [cur |-> 0, queue |-> {}]
    ELSE [cur |-> Min(live), queue |-> {i \in q : i > Min(live)}]

\* create_session up to its first await: initialize() when there is no
\* browser or the service is not running, else new_context()
B_CreateStart(c) ==
    /\ svc = "browser"
    /\ Issue
    /\ Free(c)
    /\ nextId < MaxSessions
    /\ IF browser = "none" \/ ~is_running
       THEN /\ calls' = [calls EXCEPT ![c] =
                  [StartCall("create", 0, NoUrl) EXCEPT !.pc = "init"]]
            /\ nextId' = nextId
       ELSE /\ calls' = [calls EXCEPT ![c] =
                  [StartCall("create", nextId + 1, NoUrl) EXCEPT !.pc = "ctx"]]
            /\ nextId' = nextId + 1
    /\ UNCHANGED <<fixed, sessions, is_running, browser, reapers, stopper,
                   now, releases, removed>>

\* initialize() returns inside create_session: playwright started and the
\* browser launched (ok), or the launch failed
B_CreateInit(c, r, ok) ==
    /\ svc = "browser"
    /\ calls[c].pc = "init"
    /\ nextId < MaxSessions
    /\ IF ok
       THEN /\ FreeReaper(r)
            /\ browser' = "open"
            /\ is_running' = TRUE
            /\ reapers' = [reapers EXCEPT ![r] =
                  [NoTask EXCEPT !.pc = "ready", !.wake = now]]
       ELSE /\ is_running' = FALSE
            /\ UNCHANGED <<browser, reapers>>
    /\ IF browser' = "none"
       THEN /\ calls' = [calls EXCEPT ![c] = Done(@, ErrorResult)]
            /\ nextId' = nextId
       ELSE /\ calls' = [calls EXCEPT ![c].pc = "ctx", ![c].sid = nextId + 1]
            /\ nextId' = nextId + 1
    /\ UNCHANGED <<fixed, sessions, stopper, now, releases, removed, ops>>

\* how the rest of create_session ends: the session is stored, new_context
\* raises, or new_page or setup_page_handlers raises
ContextOutcomes == {"ok", "context_raises", "page_raises"}

\* new_context(), new_page() and setup_page_handlers() return, then the
\* session is put into the map; the except branch logs and re-raises
B_CreateCtx(c, out) ==
    /\ svc = "browser"
    /\ calls[c].pc = "ctx"
    /\ out # "context_raises" => browser = "open"
    /\ IF out = "ok"
       THEN /\ sessions' = With(sessions, calls[c].sid, NewSession)
            /\ calls' = [calls EXCEPT ![c] = Done(@, OkResult(""))]
       ELSE /\ sessions' = sessions
            /\ calls' = [calls EXCEPT ![c] = Done(@, ErrorResult)]
    /\ leaked' = IF out = "page_raises" THEN leaked \cup {"context"}
                 ELSE leaked
    /\ UNCHANGED <<apart, is_running, browser, nextId, reapers, stopper, now,
                   releases, removed, ops>>

\* navigate_to_url up to `await session.page.goto(...)`
B_NavigateStart(c, sid, url) ==
    /\ svc = "browser"
    /\ Issue
    /\ Free(c)
    /\ IF SessionExists(sid)
       THEN /\ sessions' = UpdateActivity(sessions, sid)
            /\ calls' = [calls EXCEPT ![c] =
                  [StartCall("navigate", sid, url) EXCEPT
                      !.pc = "goto", !.attempted = <<"goto">>]]
       ELSE /\ sessions' = sessions
            /\ calls' = [calls EXCEPT ![c] =
                  Done(StartCall("navigate", sid, url), NotFoundResult)]
    /\ UNCHANGED <<fixed, is_running, browser, nextId, reapers, stopper, now,
                   releases, removed>>

\* goto returns or raises; then wait_for_timeout is awaited
B_NavigateGoto(c, ok) ==
    /\ svc = "browser"
    /\ calls[c].pc = "goto"
    /\ IF ok
       THEN /\ sessions' = SetUrl(sessions, calls[c].sid, calls[c].url)
            /\ calls' = [calls EXCEPT ![c].pc = "shot",
                                      ![c].attempted = Append(@, "screenshot")]
       ELSE /\ sessions' = AfterFault(sessions, calls[c].sid)
            /\ calls' = [calls EXCEPT ![c] = Done(@, ErrorResult)]
    /\ UNCHANGED <<fixed, is_running, browser, nextId, reapers, stopper, now,
                   releases, removed, ops>>

\* wait_for_timeout, screenshot and title return or raise
B_NavigateShot(c, ok) ==
    /\ svc = "browser"
    /\ calls[c].pc = "shot"
    /\ calls[c].op = "navigate"
    /\ sessions' = IF ok THEN sessions
                   ELSE AfterFault(sessions, calls[c].sid)
    /\ calls' = [calls EXCEPT ![c] =
          Done(@, IF ok THEN OkResult("") ELSE ErrorResult)]
    /\ UNCHANGED <<fixed, is_running, browser, nextId, reapers,
                   stopper, now, releases, removed, ops>>

\* interact_with_page up to the await of the mouse or keyboard action
B_InteractStart(c, sid) ==
    /\ svc = "browser"
    /\ Issue
    /\ Free(c)
    /\ IF SessionExists(sid)
       THEN /\ sessions' = UpdateActivity(sessions, sid)
            /\ calls' = [calls EXCEPT ![c] =
                  [StartCall("interact", sid, NoUrl) EXCEPT
                      !.pc = "act", !.attempted = <<"action">>]]
       ELSE /\ sessions' = sessions
            /\ calls' = [calls EXCEPT ![c] =
                  Done(StartCall("interact", sid, NoUrl), NotFoundResult)]
    /\ UNCHANGED <<fixed, is_running, browser, nextId, reapers, stopper, now,
                   releases, removed>>

\* the action, wait_for_timeout and screenshot return or raise
B_InteractEnd(c, ok) ==
    /\ svc = "browser"
    /\ calls[c].pc = "act"
    /\ calls' = [calls EXCEPT ![c] =
          Done(@, IF ok THEN OkResult("") ELSE ErrorResult)]
    /\ UNCHANGED <<fixed, sessions, is_running, browser, nextId, reapers,
                   stopper, now, releases, removed, ops>>

\* get_page_content up to `await session.page.screenshot(...)`
B_GetPageContentStart(c, sid) ==
    /\ svc = "browser"
    /\ Issue
    /\ Free(c)
    /\ IF SessionExists(sid)
       THEN /\ sessions' = UpdateActivity(sessions, sid)
            /\ calls' = [calls EXCEPT ![c] =
                  [StartCall("read", sid, NoUrl) EXCEPT
                      !.pc = "shot", !.attempted = <<"screenshot">>]]
       ELSE /\ sessions' = sessions
            /\ calls' = [calls EXCEPT ![c] =
                  Done(StartCall("read", sid, NoUrl), NotFoundResult)]
    /\ UNCHANGED <<fixed, is_running, browser, nextId, reapers, stopper, now,
                   releases, removed>>

\* screenshot and title return or raise
B_GetPageContentEnd(c, ok) ==
    /\ svc = "browser"
    /\ calls[c].pc = "shot"
    /\ calls[c].op = "read"
    /\ calls' = [calls EXCEPT ![c] =
          Done(@, IF ok THEN OkResult("") ELSE ErrorResult)]
    /\ UNCHANGED <<fixed, sessions, is_running, browser, nextId, reapers,
                   stopper, now, releases, removed, ops>>

\* close_session up to `await session.context.close()`
B_CloseStart(c, sid) ==
    /\ svc = "browser"
    /\ Issue
    /\ Free(c)
    /\ calls' = [calls EXCEPT ![c] =
          IF SessionExists(sid)
          THEN [StartCall("close", sid, NoUrl) EXCEPT !.pc = "closing"]
          ELSE Done(StartCall("close", sid, NoUrl), OkResult(""))]
    /\ UNCHANGED <<fixed, sessions, is_running, browser, nextId, reapers,
                   stopper, now, releases, removed>>

\* context.close() returns or raises; close_session finishes
B_CloseEnd(c, ok) ==
    /\ svc = "browser"
    /\ calls[c].pc = "closing"
    /\ sessions' = B_AfterRelease(sessions, calls[c].sid, ok)
    /\ releases' = B_Released(calls[c].sid, ok)
    /\ removed' = removed \cup (DOMAIN sessions \ DOMAIN sessions')
    /\ calls' = [calls EXCEPT ![c] = Done(@, OkResult(""))]
    /\ UNCHANGED <<fixed, is_running, browser, nextId, reapers, stopper, now,
                   ops>>

\* the cleanup loop wakes up: it ends when the service is stopped, else it
\* lists the expired sessions and starts closing the first
B_CleanupScan(r) ==
    /\ svc = "browser"
    /\ reapers[r].pc \in {"ready", "sleep"}
    /\ now >= reapers[r].wake
    /\ IF is_running
       THEN LET E == {i \in DOMAIN sessions : IsExpired(sessions[i])}
                nx == BeginNext(sessions, E)
            IN reapers' = [reapers EXCEPT ![r] =
                  IF nx.cur = 0
                  THEN [NoTask EXCEPT !.pc = "sleep",
                                      !.wake = now + ScanMinutes]
                  ELSE [NoTask EXCEPT !.pc = "closing", !.cur = nx.cur,
                                      !.queue = nx.queue]]
       ELSE reapers' = [reapers EXCEPT ![r] = NoTask]
    /\ UNCHANGED <<fixed, sessions, is_running, browser, nextId, calls,
                   stopper, now, releases, removed, ops>>

\* the close the cleanup loop is waiting for finishes; the loop goes on to
\* the next listed id, or to sleep
B_CleanupCloseEnd(r, ok) ==
    /\ svc = "browser"
    /\ reapers[r].pc = "closing"
    /\ sessions' = B_AfterRelease(sessions, reapers[r].cur, ok)
    /\ releases' = B_Released(reapers[r].cur, ok)
    /\ removed' = removed \cup (DOMAIN sessions \ DOMAIN sessions')
    /\ LET nx == BeginNext(sessions', reapers[r].queue)
       IN reapers' = [reapers EXCEPT ![r] =
             IF nx.cur = 0
             THEN [NoTask EXCEPT !.pc = "sleep", !.wake = now + ScanMinutes]
             ELSE [NoTask EXCEPT !.pc = "closing", !.cur = nx.cur,
                                 !.queue = nx.queue]]
    /\ UNCHANGED <<fixed, is_running, browser, nextId, calls, stopper, now,
                   ops>>

\* stop(): is_running = False, then the loop over list(self.sessions.keys())
B_StopStart ==
    /\ svc = "browser"
    /\ Issue
    /\ stopper.pc = "none"
    /\ is_running' = FALSE
    /\ LET nx == BeginNext(sessions, DOMAIN sessions)
       IN stopper' = IF nx.cur = 0
                     THEN [NoTask EXCEPT !.pc = "final"]
                     ELSE [NoTask EXCEPT !.pc = "closing", !.cur = nx.cur,
                                         !.queue = nx.queue]
    /\ UNCHANGED <<fixed, sessions, browser, nextId, calls, reapers, now,
                   releases, removed>>

B_StopCloseEnd(ok) ==
    /\ svc = "browser"
    /\ stopper.pc = "closing"
    /\ sessions' = B_AfterRelease(sessions, stopper.cur, ok)
    /\ releases' = B_Released(stopper.cur, ok)
    /\ removed' = removed \cup (DOMAIN sessions \ DOMAIN sessions')
    /\ LET nx == BeginNext(sessions', stopper.queue)
       IN stopper' = IF nx.cur = 0
                     THEN [NoTask EXCEPT !.pc = "final"]
                     ELSE [NoTask EXCEPT !.pc = "closing", !.cur = nx.cur,
                                         !.queue = nx.queue]
    /\ UNCHANGED <<fixed, is_running, browser, nextId, calls, reapers, now,
                   ops>>

\* `await self.browser.close()` and `await self.playwright.stop()`
B_StopFinal(ok) ==
    /\ svc = "browser"
    /\ stopper.pc = "final"
    /\ browser' = IF ok /\ browser # "none" THEN "closed" ELSE browser
    /\ stopper' = NoTask
    /\ UNCHANGED <<fixed, sessions, is_running, nextId, calls, reapers, now,
                   releases, removed, ops>>

BrowserNext ==
    \/ \E c \in CallIds : B_CreateStart(c)
    \/ \E c \in CallIds, r \in ReaperIds, ok \in BOOLEAN : B_CreateInit(c, r, ok)
    \/ \E c \in CallIds, out \in ContextOutcomes : B_CreateCtx(c, out)
    \/ \E c \in CallIds, sid \in SessionIds, url \in NavUrls :
          B_NavigateStart(c, sid, url)
    \/ \E c \in CallIds, ok \in BOOLEAN : B_NavigateGoto(c, ok)
    \/ \E c \in CallIds, ok \in BOOLEAN : B_NavigateShot(c, ok)
    \/ \E c \in CallIds, sid \in SessionIds : B_InteractStart(c, sid)
    \/ \E c \in CallIds, ok \in BOOLEAN : B_InteractEnd(c, ok)
    \/ \E c \in CallIds, sid \in SessionIds : B_GetPageContentStart(c, sid)
    \/ \E c \in CallIds, ok \in BOOLEAN : B_GetPageContentEnd(c, ok)
    \/ \E c \in CallIds, sid \in SessionIds : B_CloseStart(c, sid)
    \/ \E c \in CallIds, ok \in BOOLEAN : B_CloseEnd(c, ok)
    \/ \E r \in ReaperIds : B_CleanupScan(r)
    \/ \E r \in ReaperIds, ok \in BOOLEAN : B_CleanupCloseEnd(r, ok)
    \/ B_StopStart
    \/ \E ok \in BOOLEAN : B_StopCloseEnd(ok)
    \/ \E ok \in BOOLEAN : B_StopFinal(ok)

\* =================================================== AdvancedBrowserService
PopupIds == 1..MaxPopups

\* list.remove(h) on a list of distinct handles
Remove(list, h) ==
    LET Keep(x) == x # h IN SelectSeq(list, Keep)

\* the page closes the popup windows of `closed` by itself
CloseWindows(s, closed) ==
    LET Keep(x) == x \notin closed IN [s EXCEPT !.windows = SelectSeq(@, Keep)]

\* the page opens one more popup window
OpenWindow(s) ==
    IF s.opened < MaxPopups
    THEN [s EXCEPT !.windows = Append(@, s.opened + 1), !.opened = @ + 1]
    ELSE s

\* a command to the driver can be served: quit() has not completed
DriverAlive(m, sid) == sid \in DOMAIN m /\ m[sid].driver = "open"

\* a command on the focused window can be served: the window is open
FocusOk(s) == s.focus = 0 \/ s.focus \in Range(s.windows)

\* the loop of get_page_content over session.popup_windows, which removes
\* from the list it is iterating: position i is visited next
RECURSIVE PrunePopups(_, _, _)
PrunePopups(list, i, open) ==
    IF i > Len(list) THEN list
    ELSE IF list[i] \in open
         THEN PrunePopups(list, i + 1, open)
         ELSE PrunePopups(Remove(list, list[i]), i + 1, open)

\* the handles of current_windows that are not tracked yet, in engine order
NewPopups(s) ==
    LET New(x) == x \notin Range(s.popup_windows) IN SelectSeq(s.windows, New)

A_Initialize(r) ==
    /\ svc = "advanced"
    /\ Issue
    /\ FreeReaper(r)
    /\ is_running' = TRUE
    /\ reapers' = [reapers EXCEPT ![r] = [NoTask EXCEPT !.pc = "ready",
                                                        !.wake = now]]
    /\ UNCHANGED <<fixed, sessions, browser, nextId, calls, stopper, now,
                   releases, removed>>

\* how create_session of the advanced service ends: the session is stored,
\* the Chrome constructor raises, or a command to the new driver raises
CreateOutcomes == {"ok", "driver_raises", "script_raises"}

\* create_session: no suspension point; the except branch stops the display
\* and re-raises, whatever else the try block had acquired
A_CreateSession(out) ==
    /\ svc = "advanced"
    /\ Issue
    /\ nextId < MaxSessions
    /\ IF out = "ok"
       THEN /\ nextId' = nextId + 1
            /\ sessions' = With(sessions, nextId + 1, NewSession)
       ELSE UNCHANGED <<nextId, sessions>>
    /\ leaked' = IF out = "script_raises" THEN leaked \cup {"driver"}
                 ELSE leaked
    /\ UNCHANGED <<apart, is_running, browser, calls, reapers, stopper, now,
                   releases, removed>>

\* navigate_to_url up to `await asyncio.sleep(3)`: driver.get and the wait
\* for readyState return (ok) or raise; the page may open a popup
A_NavigateStart(c, sid, url, ok, opens) ==
    /\ svc = "advanced"
    /\ Issue
    /\ Free(c)
    /\ IF SessionExists(sid)
       THEN LET m1 == UpdateActivity(sessions, sid)
                cl == [StartCall("navigate", sid, url) EXCEPT
                          !.attempted = <<"get">>]
            IN /\ ok => DriverAlive(m1, sid) /\ FocusOk(m1[sid])
               /\ opens => ok
               /\ sessions' = IF opens
                              THEN [m1 EXCEPT ![sid] = OpenWindow(@)]
                              ELSE IF ok THEN m1 ELSE AfterFault(m1, sid)
               /\ calls' = [calls EXCEPT ![c] =
                     IF ok THEN [cl EXCEPT !.pc = "n1"]
                     ELSE Done(cl, ErrorResult)]
       ELSE /\ ~ok /\ ~opens
            /\ sessions' = sessions
            /\ calls' = [calls EXCEPT ![c] =
                  Done(StartCall("navigate", sid, url), NotFoundResult)]
    /\ UNCHANGED <<fixed, is_running, browser, nextId, reapers, stopper, now,
                   releases, removed>>

\* the sleep is over, during which the page may have opened one more popup
\* window: execute_script returns or raises, then `await asyncio.sleep(2)`
A_NavigateMid(c, ok, opens) ==
    /\ svc = "advanced"
    /\ calls[c].pc = "n1"
    /\ ok => DriverAlive(sessions, calls[c].sid)
             /\ FocusOk(sessions[calls[c].sid])
    /\ opens => ok
    /\ sessions' = IF opens
                   THEN [sessions EXCEPT ![calls[c].sid] = OpenWindow(@)]
                   ELSE IF ok THEN sessions
                        ELSE AfterFault(sessions, calls[c].sid)
    /\ calls' = [calls EXCEPT ![c] =
          IF ok THEN [@ EXCEPT !.pc = "n2", !.attempted = Append(@, "script")]
          ELSE Done([@ EXCEPT !.attempted = Append(@, "script")],
                    ErrorResult)]
    /\ UNCHANGED <<fixed, is_running, browser, nextId, reapers,
                   stopper, now, releases, removed, ops>>

\* the second sleep is over: window_handles, `popup_windows = windows[1:]`
\* when there is more than the main window, the screenshot (ok or raises),
\* `current_url = url`
A_NavigateEnd(c, ok, closed) ==
    /\ svc = "advanced"
    /\ calls[c].pc = "n2"
    /\ LET sid == calls[c].sid
           cl == [calls[c] EXCEPT !.attempted = Append(@, "screenshot")]
       IN IF DriverAlive(sessions, sid)
          THEN LET s1 == CloseWindows(sessions[sid], closed)
                   s2 == IF s1.windows # <<>>
                         THEN [s1 EXCEPT !.popup_windows = s1.windows]
                         ELSE s1
               IN /\ closed \subseteq Range(sessions[sid].windows)
                  /\ ok => FocusOk(s2)
                  /\ sessions' =
                        IF ok
                        THEN [sessions EXCEPT ![sid] =
                                 [s2 EXCEPT !.current_url = cl.url]]
                        ELSE AfterFault([sessions EXCEPT ![sid] = s2], sid)
                  /\ calls' = [calls EXCEPT ![c] =
                        Done(cl, IF ok THEN OkResult("") ELSE ErrorResult)]
          ELSE /\ ~ok /\ closed = {}
               /\ sessions' = AfterFault(sessions, sid)
               /\ calls' = [calls EXCEPT ![c] = Done(cl, ErrorResult)]
    /\ UNCHANGED <<fixed, is_running, browser, nextId, reapers, stopper, now,
                   releases, removed, ops>>

ActionTypes == {"click", "focus", "close", "screenshot"}

\* the effect of the action branch of interact_with_page on the session:
\* [s |-> session after it, raised |-> whether the branch raised]
ActionEffect(s, act, idx, ok, opens) ==
    IF act = "click"
    THEN IF ok
         THEN [s |-> IF opens THEN OpenWindow(s) ELSE s, raised |-> FALSE]
         ELSE [s |-> s, raised |-> TRUE]
    ELSE IF idx >= Len(s.popup_windows)
         THEN [s |-> s, raised |-> FALSE]
         ELSE LET h == s.popup_windows[idx + 1] IN
              IF ~(ok /\ h \in Range(s.windows))
              THEN [s |-> s, raised |-> TRUE]
              ELSE IF act = "focus"
                   THEN [s |-> [s EXCEPT !.focus = h], raised |-> FALSE]
              ELSE IF act = "close"
                   THEN [s |-> [s EXCEPT !.windows = Remove(@, h),
                                         !.focus = 0,
                                         !.popup_windows = Remove(@, h)],
                         raised |-> FALSE]
              ELSE [s |-> [s EXCEPT !.focus = 0], raised |-> FALSE]

\* interact_with_page up to `await asyncio.sleep(1)`; the screenshot action
\* on a tracked popup returns at once
A_InteractStart(c, sid, act, idx, ok, opens, closed) ==
    /\ svc = "advanced"
    /\ Issue
    /\ Free(c)
    /\ IF SessionExists(sid)
       THEN LET m1 == UpdateActivity(sessions, sid)
                s0 == CloseWindows(m1[sid], closed)
                e == ActionEffect(s0, act, idx, ok, opens)
                cl == [StartCall("interact", sid, NoUrl) EXCEPT
                          !.attempted = <<act>>]
            IN /\ closed \subseteq Range(m1[sid].windows)
               /\ ok => s0.driver = "open"
               /\ (ok /\ act = "click") => FocusOk(s0)
               /\ opens => (ok /\ act = "click")
               /\ act = "click" => idx = 0
               /\ sessions' = IF e.raised
                              THEN AfterFault([m1 EXCEPT ![sid] = e.s], sid)
                              ELSE [m1 EXCEPT ![sid] = e.s]
               /\ calls' = [calls EXCEPT ![c] =
                     IF e.raised THEN Done(cl, ErrorResult)
                     ELSE IF act = "screenshot"
                             /\ idx < Len(s0.popup_windows)
                          THEN [Done(cl, OkResult("")) EXCEPT
                                   !.popup = [shot |-> s0.popup_windows[idx + 1],
                                              info |-> e.s.focus]]
                          ELSE [cl EXCEPT !.pc = "i1"]]
       ELSE /\ ~ok /\ ~opens /\ closed = {} /\ idx = 0 /\ act = "click"
            /\ sessions' = sessions
            /\ calls' = [calls EXCEPT ![c] =
                  Done(StartCall("interact", sid, NoUrl), NotFoundResult)]
    /\ UNCHANGED <<fixed, is_running, browser, nextId, reapers, stopper, now,
                   releases, removed>>

\* the sleep is over: window_handles, the new popups are appended to
\* popup_windows, the driver switches to the main window, the screenshot
A_InteractEnd(c, ok) ==
    /\ svc = "advanced"
    /\ calls[c].pc = "i1"
    /\ LET sid == calls[c].sid
           cl == [calls[c] EXCEPT !.attempted = Append(@, "screenshot")]
       IN IF DriverAlive(sessions, sid)
          THEN LET m1 == [sessions EXCEPT ![sid] =
                     [@ EXCEPT !.popup_windows = @ \o NewPopups(sessions[sid]),
                               !.focus = 0]]
               IN /\ sessions' = IF ok THEN m1 ELSE AfterFault(m1, sid)
                  /\ calls' = [calls EXCEPT ![c] =
                        Done(cl, IF ok THEN OkResult("") ELSE ErrorResult)]
          ELSE /\ ~ok
               /\ sessions' = AfterFault(sessions, sid)
               /\ calls' = [calls EXCEPT ![c] = Done(cl, ErrorResult)]
    /\ UNCHANGED <<fixed, is_running, browser, nextId, reapers, stopper, now,
                   releases, removed, ops>>

\* get_page_content: no suspension point
A_GetPageContent(c, sid, ok, closed) ==
    /\ svc = "advanced"
    /\ Issue
    /\ Free(c)
    /\ IF SessionExists(sid)
       THEN LET m1 == UpdateActivity(sessions, sid)
                s0 == CloseWindows(m1[sid], closed)
                cl == [StartCall("read", sid, NoUrl) EXCEPT
                          !.attempted = <<"screenshot">>]
            IN /\ closed \subseteq Range(m1[sid].windows)
               /\ ok => s0.driver = "open"
               /\ sessions' = [m1 EXCEPT ![sid] =
                     IF s0.driver # "open" THEN s0
                     ELSE IF ~ok THEN [s0 EXCEPT !.focus = 0]
                     ELSE [s0 EXCEPT
                             !.focus = 0,
                             !.popup_windows =
                                 PrunePopups(@, 1, Range(s0.windows))]]
               /\ calls' = [calls EXCEPT ![c] =
                     Done(cl, IF ok THEN OkResult("") ELSE ErrorResult)]
       ELSE /\ ~ok /\ closed = {}
            /\ sessions' = sessions
            /\ calls' = [calls EXCEPT ![c] =
                  Done(StartCall("read", sid, NoUrl), NotFoundResult)]
    /\ UNCHANGED <<fixed, is_running, browser, nextId, reapers, stopper, now,
                   releases, removed>>

\* execute_javascript: no suspension point
A_ExecuteJavascript(c, sid, ok) ==
    /\ svc = "advanced"
    /\ Issue
    /\ Free(c)
    /\ IF SessionExists(sid)
       THEN /\ ok => sessions[sid].driver = "open"
            /\ sessions' = UpdateActivity(sessions, sid)
            /\ calls' = [calls EXCEPT ![c] =
                  Done([StartCall("script", sid, NoUrl) EXCEPT
                           !.attempted = <<"execute_script">>],
                       IF ok THEN OkResult("") ELSE ErrorResult)]
       ELSE /\ ~ok
            /\ sessions' = sessions
            /\ calls' = [calls EXCEPT ![c] =
                  Done(StartCall("script", sid, NoUrl), NotFoundResult)]
    /\ UNCHANGED <<fixed, is_running, browser, nextId, reapers, stopper, now,
                   releases, removed>>

\* {'success': False, 'error': 'No popup window found'}
NoPopupResult == [success |-> FALSE, method |-> "", error |-> "no_popup"]

\* handle_oauth_popup up to its sleep(2): the membership test and two
\* assignments to locals
A_OauthStart(c, sid) ==
    /\ svc = "advanced"
    /\ Issue
    /\ Free(c)
    /\ calls' = [calls EXCEPT ![c] =
          IF SessionExists(sid)
          THEN [StartCall("oauth", sid, NoUrl) EXCEPT !.pc = "o1"]
          ELSE Done(StartCall("oauth", sid, NoUrl), NotFoundResult)]
    /\ UNCHANGED <<fixed, sessions, is_running, browser, nextId, reapers,
                   stopper, now, releases, removed>>

\* the sleep is over: with a window besides the main one the driver
\* switches to the latest, fills the form (`ok`: nothing raised), takes the
\* screenshot and switches back to the main window
A_OauthEnd(c, ok) ==
    /\ svc = "advanced"
    /\ calls[c].pc = "o1"
    /\ LET sid == calls[c].sid
           cl == calls[c]
       IN IF ~DriverAlive(sessions, sid)
          THEN /\ ~ok
               /\ sessions' = sessions
               /\ calls' = [calls EXCEPT ![c] = Done(cl, ErrorResult)]
          ELSE IF sessions[sid].windows = <<>>
          THEN /\ ~ok
               /\ sessions' = sessions
               /\ calls' = [calls EXCEPT ![c] = Done(cl, NoPopupResult)]
          ELSE LET w == sessions[sid].windows
                   shot == [cl EXCEPT !.attempted = <<"screenshot">>]
               IN /\ sessions' = [sessions EXCEPT ![sid].focus =
                                     IF ok THEN 0 ELSE w[Len(w)]]
                  /\ calls' = [calls EXCEPT ![c] =
                        IF ok THEN Done(shot, OkResult(""))
                        ELSE Done(cl, ErrorResult)]
    /\ UNCHANGED <<fixed, is_running, browser, nextId, reapers, stopper, now,
                   releases, removed, ops>>

\* what close_session leaves of a session it failed to delete: the tracked
\* popups that were open are closed; driver.quit() raised (the driver is
\* still there), or it returned and display.stop() raised
AfterFailedClose(s, quitRaised) ==
    LET Keep(x) == x \notin Range(s.popup_windows)
        tracked == Range(s.popup_windows) \cap Range(s.windows)
    IN IF quitRaised
       THEN [s EXCEPT !.windows = SelectSeq(@, Keep),
                      !.focus = IF tracked = {} THEN @
                                ELSE s.popup_windows[Len(s.popup_windows)]]
       ELSE [s EXCEPT !.windows = <<>>, !.driver = "quit"]

\* close_session applied to the ids of E one after the other; driver.quit()
\* raises for the ids of F and display.stop() for those of G, and the except
\* branch then skips the del
A_CloseAll(E, F, G) ==
    LET live == E \cap DOMAIN sessions
        gone == live \ (F \cup G)
    IN /\ sessions' = [i \in DOMAIN sessions \ gone |->
                          IF i \in live
                          THEN AfterFailedClose(sessions[i], i \in F)
                          ELSE sessions[i]]
       /\ releases' = [i \in SessionIds |->
                          IF i \in live \ F THEN releases[i] + 1
                          ELSE releases[i]]
       /\ removed' = removed \cup gone

\* the outcomes of the release calls of one close_session
CloseOutcomes == {"ok", "quit_raises", "stop_raises"}

A_CloseSession(c, sid, out) ==
    /\ svc = "advanced"
    /\ Issue
    /\ Free(c)
    /\ A_CloseAll({sid}, IF out = "quit_raises" THEN {sid} ELSE {},
                  IF out = "stop_raises" THEN {sid} ELSE {})
    /\ calls' = [calls EXCEPT ![c] =
          Done(StartCall("close", sid, NoUrl), OkResult(""))]
    /\ UNCHANGED <<fixed, is_running, browser, nextId, reapers, stopper, now>>

\* one pass of the cleanup loop: close_session never suspends, so the scan
\* and the closes are one step, followed by the 5 minute sleep
A_Cleanup(r, F, G) ==
    /\ svc = "advanced"
    /\ reapers[r].pc \in {"ready", "sleep"}
    /\ now >= reapers[r].wake
    /\ IF is_running
       THEN LET E == {i \in DOMAIN sessions : IsExpired(sessions[i])} IN
            /\ F \subseteq E
            /\ G \subseteq E \ F
            /\ A_CloseAll(E, F, G)
            /\ reapers' = [reapers EXCEPT ![r].pc = "sleep",
                                          ![r].wake = now + ScanMinutes,
                                          ![r].logged = F \cup G]
       ELSE /\ F = {} /\ G = {}
            /\ reapers' = [reapers EXCEPT ![r] = NoTask]
            /\ UNCHANGED <<sessions, releases, removed>>
    /\ UNCHANGED <<fixed, is_running, browser, nextId, calls, stopper, now,
                   ops>>

\* the Chrome process behind session.driver dies: its windows are gone and
\* every later command to the driver raises
A_DriverDies(sid) ==
    /\ svc = "advanced"
    /\ Issue
    /\ DriverAlive(sessions, sid)
    /\ sessions' = [sessions EXCEPT ![sid].driver = "dead",
                                    ![sid].windows = <<>>]
    /\ UNCHANGED <<fixed, is_running, browser, nextId, calls, reapers,
                   stopper, now, releases, removed>>

\* stop(): is_running = False, then close every session
A_Stop(F, G) ==
    /\ svc = "advanced"
    /\ Issue
    /\ F \subseteq DOMAIN sessions
    /\ G \subseteq DOMAIN sessions \ F
    /\ is_running' = FALSE
    /\ A_CloseAll(DOMAIN sessions, F, G)
    /\ UNCHANGED <<fixed, browser, nextId, calls, reapers, stopper, now>>

AdvancedNext ==
    \/ \E r \in ReaperIds : A_Initialize(r)
    \/ \E out \in CreateOutcomes : A_CreateSession(out)
    \/ \E c \in CallIds, sid \in SessionIds, url \in NavUrls,
          ok \in BOOLEAN, opens \in BOOLEAN :
          A_NavigateStart(c, sid, url, ok, opens)
    \/ \E c \in CallIds, ok \in BOOLEAN, opens \in BOOLEAN :
          A_NavigateMid(c, ok, opens)
    \/ \E c \in CallIds, ok \in BOOLEAN, closed \in SUBSET PopupIds :
          A_NavigateEnd(c, ok, closed)
    \/ \E c \in CallIds, sid \in SessionIds, act \in ActionTypes,
          idx \in 0..(MaxPopups - 1), ok \in BOOLEAN, opens \in BOOLEAN,
          closed \in SUBSET PopupIds :
          A_InteractStart(c, sid, act, idx, ok, opens, closed)
    \/ \E c \in CallIds, ok \in BOOLEAN : A_InteractEnd(c, ok)
    \/ \E c \in CallIds, sid \in SessionIds, ok \in BOOLEAN,
          closed \in SUBSET PopupIds : A_GetPageContent(c, sid, ok, closed)
    \/ \E c \in CallIds, sid \in SessionIds, ok \in BOOLEAN :
          A_ExecuteJavascript(c, sid, ok)
    \/ \E c \in CallIds, sid \in SessionIds : A_OauthStart(c, sid)
    \/ \E c \in CallIds, ok \in BOOLEAN : A_OauthEnd(c, ok)
    \/ \E c \in CallIds, sid \in SessionIds, out \in CloseOutcomes :
          A_CloseSession(c, sid, out)
    \/ \E r \in ReaperIds, F \in SUBSET SessionIds, G \in SUBSET SessionIds :
          A_Cleanup(r, F, G)
    \/ \E sid \in SessionIds : A_DriverDies(sid)
    \/ \E F \in SUBSET SessionIds, G \in SUBSET SessionIds : A_Stop(F, G)

\* ========================================================= ContentResolver
\* The locators handed to resolve_content: every sequence of at most MaxLen
\* tokens.
Tokens == {"ipfs://", "http://", "https://", "/", "x", ".prv"}

Locators == UNION {[1..n -> Tokens] : n \in 0..MaxLen}

\* url.startswith(tok), url.endswith(tok)
StartsWith(url, tok) == Len(url) >= 1 /\ url[1] = tok
EndsWith(url, tok) == Len(url) >= 1 /\ url[Len(url)] = tok

\* what a token contributes to the text before the first "/" of a string,
\* and whether that "/" is inside it
BeforeSlash(tok) ==
    IF tok = "/" THEN <<>>
    ELSE IF tok = "http://" THEN <<"http:">>
    ELSE IF tok = "https://" THEN <<"https:">>
    ELSE IF tok = "ipfs://" THEN <<"ipfs:">>
    ELSE <<tok>>

HasSlash(tok) == tok \in {"/", "http://", "https://", "ipfs://"}

\* s.split('/')[0]
RECURSIVE FirstSegment(_)
FirstSegment(s) ==
    IF s = <<>> THEN <<>>
    ELSE IF HasSlash(Head(s)) THEN BeforeSlash(Head(s))
    ELSE <<Head(s)>> \o FirstSegment(Tail(s))

\* cid = url.replace('ipfs://', '').split('/')[0]
Cid(url) ==
    LET Keep(tok) == tok # "ipfs://" IN FirstSegment(SelectSeq(url, Keep))

\* the chain with the suffix test moved in front of the ipfs:// test
ResolveBranchMut(url) ==
    IF EndsWith(url, ".prv") THEN "prv"
    ELSE IF StartsWith(url, "ipfs://") THEN "ipfs"
    ELSE IF StartsWith(url, "http://") \/ StartsWith(url, "https://")
         THEN "http"
    ELSE "unsupported"

\* the branch of the if/elif chain of resolve_content that is taken
ResolveBranch(url) ==
    IF StartsWith(url, "ipfs://") THEN "ipfs"
    ELSE IF EndsWith(url, ".prv") THEN "prv"
    ELSE IF StartsWith(url, "http://") \/ StartsWith(url, "https://")
         THEN "http"
    ELSE "unsupported"

\* what the adapters hand back
Bodies == {"hello", "bye"}
MediaTypes == {"text/plain", "image/png"}
NoHash == <<>>
Hashes == {NoHash, <<"QmA">>, <<"QmB">>}
Owners == {"cosmos1a", "cosmos1b"}
Heights == {7, 8}

\* domain_info of _query_domain_registry: content_hash, owner, height
Mappings == [content_hash : Hashes, owner : Owners, height : Heights]

\* the address of the last response of the web fetch: the one requested, or
\* the target of a redirect
RedirectTarget == <<"https://", "x", "/">>
FinalUrl(url, redirected) == IF redirected THEN RedirectTarget ELSE url

\* the value an adapter handed back (fields it does not set are empty)
NoRet == [content |-> "", content_type |-> "", hash |-> NoHash, owner |-> "",
          height |-> 0, url |-> <<>>]

NoOutcome == [status |-> 0, source |-> "", error |-> "", detail |-> "",
              content |-> "", content_type |-> "", cid |-> <<>>,
              owner |-> "", height |-> 0, hash |-> NoHash, url |-> <<>>]

\* HTTPException(status_code=500, detail="Resolution error: ...") raised by
\* resolve_content; `detail` is the text of the exception it caught
ResolutionErrorOf(detail) ==
    [NoOutcome EXCEPT !.status = 500, !.error = "resolution",
                      !.detail = detail]

ResolutionError == ResolutionErrorOf("")

\* a result dictionary returned by resolve_content
Resolved(source, error) ==
    [NoOutcome EXCEPT !.status = HttpOk, !.source = source, !.error = error]

\* the notice of the .prv branch for a name it found no content hash for
NotFoundNotice == "PrivaChain Domain Not Found"

AdapterCall(adapter, arg) ==
    [adapter |-> adapter, arg |-> arg, out |-> "pending", ret |-> NoRet]

\* the last adapter call returns `out`, handing back `ret`
Returned(log, out, ret) ==
    [log EXCEPT ![Len(log)].out = out, ![Len(log)].ret = ret]

\* resolve_content up to its first await; the HTTPException(400) of the last
\* branch is caught by the enclosing `except Exception` and raised again as
\* a 500
R_ResolveStart ==
    /\ svc = "resolver"
    /\ rpc = "idle"
    /\ LET b == ResolveBranch(rurl) IN
       IF b = "ipfs"
       THEN /\ rlog' = Append(rlog, AdapterCall("ipfs", Cid(rurl)))
            /\ rpc' = "ipfs"
            /\ rres' = rres
       ELSE IF b = "prv"
       THEN /\ rlog' = Append(rlog, AdapterCall("cosmos", rurl))
            /\ rpc' = "cosmos"
            /\ rres' = rres
       ELSE IF b = "http"
       THEN /\ rlog' = Append(rlog, AdapterCall("http", rurl))
            /\ rpc' = "http"
            /\ rres' = rres
       ELSE /\ rlog' = rlog
            /\ rpc' = "done"
            /\ rres' = ResolutionErrorOf("400: Unsupported URL scheme")
    /\ UNCHANGED <<svc, rurl, reply, cache, svars>>

IpfsOutcomes == {"ok", "not_found", "transport"}

\* what IPFSService.get_content hands to its caller: the dictionary, or the
\* HTTPException(500) its except branch raises (its own 404 included)
IpfsResult(out, body, ctype, cid) ==
    IF out = "ok"
    THEN [Resolved("ipfs", "") EXCEPT !.content = body,
                                      !.content_type = ctype, !.cid = cid]
    ELSE ResolutionErrorOf(IF out = "not_found"
                           THEN "500: IPFS error: 404: IPFS content not found"
                           ELSE "500: IPFS error: transport")

\* IPFSService.get_content returns, or raises HTTPException
R_IpfsReturn(out, body, ctype) ==
    /\ svc = "resolver"
    /\ rpc \in {"ipfs", "ipfs_prv"}
    /\ out # "ok" => body = "hello" /\ ctype = "text/plain"
    /\ rpc' = "done"
    /\ LET call == rlog[Len(rlog)]
           got == IpfsResult(out, body, ctype, call.arg)
           info == rlog[1].ret
       IN /\ rlog' = Returned(rlog, out,
                        IF out = "ok"
                        THEN [NoRet EXCEPT !.content = body,
                                           !.content_type = ctype]
                        ELSE NoRet)
          /\ rres' = IF out # "ok" THEN got
                     ELSE IF rpc = "ipfs" THEN got
                     ELSE [Resolved("prv", "") EXCEPT
                              !.content = got.content,
                              !.content_type = got.content_type,
                              !.owner = info.owner,
                              !.height = info.height,
                              !.hash = info.hash]
    /\ UNCHANGED <<svc, rurl, reply, cache, svars>>

LedgerOutcomes == {"mapped", "unmapped", "failed"}

\* what resolve_prv_domain hands back: the mapping, or None when there is no
\* mapping and also when the query raised (its except branch returns None)
LedgerReturn(out, m) ==
    IF out = "mapped"
    THEN [NoRet EXCEPT !.hash = m.content_hash, !.owner = m.owner,
                       !.height = m.height]
    ELSE NoRet

\* a chain that fetches one fixed content id whatever the ledger said
ChainedHashMut(info) == <<"QmA">>

\* domain_info["ipfs_hash"], the content id the .prv branch fetches
ChainedHash(info) == info.hash

\* the .prv branch after cosmos_service.resolve_prv_domain returned
R_CosmosReturn(out, m) ==
    /\ svc = "resolver"
    /\ rpc = "cosmos"
    /\ out # "mapped" => m = [content_hash |-> NoHash, owner |-> "cosmos1a",
                              height |-> 7]
    /\ LET info == LedgerReturn(out, m)
           log == Returned(rlog, out, info)
       IN IF out = "mapped" /\ info.hash # NoHash
          THEN /\ rlog' = Append(log, AdapterCall("ipfs", ChainedHash(info)))
               /\ rpc' = "ipfs_prv"
               /\ rres' = rres
          ELSE /\ rlog' = log
               /\ rpc' = "done"
               /\ rres' = [Resolved("prv", "domain_not_found") EXCEPT
                              !.content = NotFoundNotice,
                              !.content_type = "text/html"]
    /\ UNCHANGED <<svc, rurl, reply, cache, svars>>

HttpOutcomes == {"ok", "status", "transport"}

\* fetch_http_content returns on status 200, else raises HTTPException
R_HttpReturn(out, body, final) ==
    /\ svc = "resolver"
    /\ rpc = "http"
    /\ out # "ok" => body = "hello" /\ final = rurl
    /\ rpc' = "done"
    /\ rlog' = Returned(rlog, out,
                  IF out = "ok"
                  THEN [NoRet EXCEPT !.content = body, !.url = final]
                  ELSE NoRet)
    /\ rres' = IF out = "ok"
               THEN [Resolved("http", "") EXCEPT !.content = body,
                        !.content_type = "text/html", !.url = final]
               ELSE ResolutionErrorOf("500: HTTP fetch error")
    /\ UNCHANGED <<svc, rurl, reply, cache, svars>>

NoReply == [status |-> 0]

\* result.get("metadata") when the result has no such key
NoMetadata == <<>>

\* ContentResponse(url=request.url, content=..., content_type=...,
\* source=..., metadata=result.get("metadata")): no branch of
\* resolve_content returns a "metadata" key
ContentResponse(url, result) ==
    [status |-> HttpOk, url |-> url, content |-> result.content,
     content_type |-> result.content_type, source |-> result.source,
     metadata |-> NoMetadata]

\* HTTPException(status_code=500, detail=str(e)) of the endpoint
EndpointError(detail) == [status |-> 500, detail |-> detail]

\* an endpoint that answers without storing anything
InsertOneMut(coll, doc) == coll

\* `await db.content_cache.insert_one(content_response.dict())`
InsertOne(coll, doc) == Append(coll, doc)

\* POST /content/resolve after resolve_content returned or raised: build the
\* ContentResponse, insert it into the cache collection, return it
R_EndpointReply(dbOk) ==
    /\ svc = "resolver"
    /\ rpc = "done"
    /\ reply = NoReply
    /\ rres.status # HttpOk => dbOk
    /\ reply' = IF rres.status # HttpOk THEN EndpointError(rres.detail)
                ELSE IF dbOk THEN ContentResponse(rurl, rres)
                ELSE EndpointError("db")
    /\ cache' = IF rres.status = HttpOk /\ dbOk
                THEN InsertOne(cache, ContentResponse(rurl, rres))
                ELSE cache
    /\ UNCHANGED <<svc, rurl, rpc, rlog, rres, svars>>

ResolverNext ==
    \/ R_ResolveStart
    \/ \E out \in IpfsOutcomes, body \in Bodies, ctype \in MediaTypes :
          R_IpfsReturn(out, body, ctype)
    \/ \E out \in LedgerOutcomes, m \in Mappings : R_CosmosReturn(out, m)
    \/ \E out \in HttpOutcomes, body \in Bodies, redirected \in BOOLEAN :
          R_HttpReturn(out, body, FinalUrl(rurl, redirected))
    \/ \E dbOk \in BOOLEAN : R_EndpointReply(dbOk)

\* =========================================================== CosmosService
\* Domain names handed to register_domain and resolve_prv_domain, as token
\* sequences: 'x', 'x.prv', and 'example', a key of demo_domains.
DomainNames == {<<"x">>, <<"x", ".prv">>, <<"example">>}

\* 12345678, the base of the heights the service makes up
HeightBase == 12345678

\* demo_domains of _query_domain_registry, keyed by the looked-up name
DemoDomains ==
    [n \in {<<"example">>} |->
        [content_hash |-> <<"QmDemo">>, owner |-> "cosmos1example...",
         height |-> HeightBase]]

\* a register_domain or resolve_prv_domain call that is not running;
\* `result` is what resolve_prv_domain returns: None (found FALSE) or the
\* mapping it builds from domain_info
NoLedgerCall ==
    [pc |-> "idle", name |-> <<>>, key |-> <<>>, content_hash |-> NoHash,
     owner |-> "",
     result |-> [found |-> FALSE, ipfs_hash |-> NoHash, owner |-> "",
                 registration_height |-> 0]]

\* CosmosService after __init__ (no _local_domain_registry attribute yet,
\* transaction_count 0), the chain's own domain records, and `registered`,
\* the arguments of the last register_domain call per name that returned
\* success
NewCosmos(testnet) ==
    [testnet |-> testnet, transaction_count |-> 0, registry |-> <<>>,
     chain |-> <<>>, registered |-> <<>>, reg |-> NoLedgerCall,
     res |-> NoLedgerCall]

\* register_domain up to the broadcast: _create_and_broadcast_transaction
\* counts the transaction and signs it, _broadcast_transaction awaits the
\* network (or the simulated delay of the testnet)
C_RegisterStart(name, content_hash, owner) ==
    /\ svc = "cosmos"
    /\ cosmos.reg.pc = "idle"
    /\ cosmos.transaction_count < MaxOps
    /\ cosmos' = [cosmos EXCEPT
          !.transaction_count = @ + 1,
          !.reg = [NoLedgerCall EXCEPT !.pc = "broadcast", !.name = name,
                      !.content_hash = content_hash, !.owner = owner]]
    /\ UNCHANGED <<svc, rurl, rpc, rlog, rres, reply, cache, sessions,
                   is_running, browser, nextId, calls, reapers, stopper, now,
                   releases, removed, ops, adv_sessions, leaked>>

\* the broadcast returns: on a testnet endpoint it is simulated and always
\* succeeds without reaching the chain; otherwise status 200 is a success.
\* On success _store_domain_locally writes _local_domain_registry[name] and
\* register_domain returns success.
C_RegisterEnd(out) ==
    /\ svc = "cosmos"
    /\ cosmos.reg.pc = "broadcast"
    /\ cosmos.testnet => out = "ok"
    /\ LET r == cosmos.reg
           rec == [content_hash |-> r.content_hash, owner |-> r.owner,
                   height |-> HeightBase + cosmos.transaction_count]
       IN cosmos' =
             IF out = "ok"
             THEN [cosmos EXCEPT
                     !.registry = (r.name :> rec) @@ @,
                     !.chain = IF cosmos.testnet THEN @
                               ELSE (r.name :> rec) @@ @,
                     !.registered = (r.name :> [content_hash |-> r.content_hash,
                                                owner |-> r.owner]) @@ @,
                     !.reg = NoLedgerCall]
             ELSE [cosmos EXCEPT !.reg = NoLedgerCall]
    /\ UNCHANGED <<svc, rurl, rpc, rlog, rres, reply, cache, sessions,
                   is_running, browser, nextId, calls, reapers, stopper, now,
                   releases, removed, ops, adv_sessions, leaked>>

\* resolve_prv_domain up to the query: domain gets '.prv' appended unless it
\* ends with it, domain_name is domain with every '.prv' removed; then
\* _cosmos_query awaits the chain
C_ResolveStart(name) ==
    /\ svc = "cosmos"
    /\ cosmos.res.pc # "query"
    /\ LET domain == IF EndsWith(name, ".prv") THEN name
                     ELSE Append(name, ".prv")
           domain_name == SelectSeq(domain, LAMBDA t : t # ".prv")
       IN cosmos' = [cosmos EXCEPT
             !.res = [NoLedgerCall EXCEPT !.pc = "query", !.name = name,
                                          !.key = domain_name]]
    /\ UNCHANGED <<svc, rurl, rpc, rlog, rres, reply, cache, sessions,
                   is_running, browser, nextId, calls, reapers, stopper, now,
                   releases, removed, ops, adv_sessions, leaked>>

\* the query returns: the chain's record if it answered and has one, else
\* the entry of demo_domains, else None; _local_domain_registry is not read
C_ResolveEnd(answered) ==
    /\ svc = "cosmos"
    /\ cosmos.res.pc = "query"
    /\ LET k == cosmos.res.key
           info == IF answered /\ k \in DOMAIN cosmos.chain
                   THEN <<cosmos.chain[k]>>
                   ELSE IF k \in DOMAIN DemoDomains THEN <<DemoDomains[k]>>
                   ELSE <<>>
       IN cosmos' = [cosmos EXCEPT
             !.res.pc = "done",
             !.res.result =
                 IF info = <<>> THEN NoLedgerCall.result
                 ELSE [found |-> TRUE, ipfs_hash |-> info[1].content_hash,
                       owner |-> info[1].owner,
                       registration_height |-> info[1].height]]
    /\ UNCHANGED <<svc, rurl, rpc, rlog, rres, reply, cache, sessions,
                   is_running, browser, nextId, calls, reapers, stopper, now,
                   releases, removed, ops, adv_sessions, leaked>>

LedgerNext ==
    \/ \E name \in DomainNames, content_hash \in Hashes \ {NoHash},
          owner \in Owners : C_RegisterStart(name, content_hash, owner)
    \/ \E out \in {"ok", "status", "transport"} : C_RegisterEnd(out)
    \/ \E name \in DomainNames : C_ResolveStart(name)
    \/ \E answered \in BOOLEAN : C_ResolveEnd(answered)

\* ==================================================================== time
Tick ==
    /\ now + ScanMinutes <= MaxTime
    /\ NoCallInFlight
    /\ stopper.pc = "none"
    /\ \A r \in ReaperIds :
          /\ reapers[r].pc \in {"none", "sleep"}
          /\ reapers[r].pc = "sleep" => now + ScanMinutes <= reapers[r].wake
    /\ now' = now + ScanMinutes
    /\ UNCHANGED <<fixed, sessions, is_running, browser, nextId, calls,
                   reapers, stopper, releases, removed, ops>>

\* ============================================================ API process
\* The /browser endpoints of server.py.  create, navigate, content and close
\* use working_browser_service (the W_ actions); interact and the session
\* list use advanced_browser_service, whose session map is adv_sessions.

\* POST /browser/session: initialize() unless the service is running, then
\* create_session()
E_CreateSession(r) ==
    /\ svc = "api"
    /\ LoopFree
    /\ Issue
    /\ nextId < MaxSessions
    /\ IF is_running
       THEN reapers' = reapers
       ELSE /\ FreeReaper(r)
            /\ reapers' = [reapers EXCEPT ![r] =
                  [NoTask EXCEPT !.pc = "ready", !.wake = now]]
    /\ is_running' = TRUE
    /\ nextId' = nextId + 1
    /\ sessions' = With(sessions, nextId + 1, NewSession)
    /\ UNCHANGED <<fixed, browser, calls, stopper, now, releases, removed>>

\* POST /browser/{session_id}/interact:
\* advanced_browser_service.interact_with_page(session_id, action); the
\* steps of the interaction itself are those of A_InteractStart and
\* A_InteractEnd
E_Interact(c, sid, act) ==
    /\ svc = "api"
    /\ LoopFree
    /\ Issue
    /\ Free(c)
    /\ LET cl == StartCall("interact", sid, NoUrl) IN
       IF sid \in DOMAIN adv_sessions
       THEN /\ adv_sessions' = UpdateActivity(adv_sessions, sid)
            /\ calls' = [calls EXCEPT ![c] =
                  Done([cl EXCEPT !.attempted = <<act>>], OkResult(""))]
       ELSE /\ adv_sessions' = adv_sessions
            /\ calls' = [calls EXCEPT ![c] = Done(cl, NotFoundResult)]
    /\ UNCHANGED <<svc, rurl, rpc, rlog, rres, reply, sessions, is_running,
                   browser, nextId, reapers, stopper, now, releases, removed,
                   leaked, cosmos, cache>>

\* one entry of GET /browser/sessions
SessionEntry(sid, s) ==
    [session_id |-> sid, current_url |-> s.current_url,
     last_activity |-> s.last_activity,
     popup_count |-> Len(s.popup_windows)]

\* GET /browser/sessions: one entry per item of
\* advanced_browser_service.sessions (`at` numbers the request that was
\* answered)
E_ListSessions ==
    /\ svc = "api"
    /\ LoopFree
    /\ Issue
    /\ reply' = [status |-> HttpOk,
                 sessions |-> {SessionEntry(sid, adv_sessions[sid]) :
                                  sid \in DOMAIN adv_sessions},
                 at |-> ops + 1]
    /\ UNCHANGED <<svc, rurl, rpc, rlog, rres, adv_sessions, sessions,
                   is_running, browser, nextId, calls, reapers, stopper, now,
                   releases, removed, leaked, cosmos, cache>>

ApiNext ==
    \/ \E r \in ReaperIds : W_Initialize(r)
    \/ \E r \in ReaperIds : E_CreateSession(r)
    \/ \E c \in CallIds, sid \in SessionIds, url \in NavUrls :
          W_NavigateStart(c, sid, url)
    \/ \E c \in CallIds, out \in JsOutcomes : W_NavigateS1(c, out)
    \/ \E c \in CallIds, out \in JsOutcomes : W_NavigateS1Close(c, out)
    \/ \E c \in CallIds : W_NavigateS2(c)
    \/ \E c \in CallIds, status \in ProxyStatuses, hasHead \in BOOLEAN,
          pilFails \in BOOLEAN, soupFails \in BOOLEAN :
          W_NavigateS2Get(c, status, hasHead, pilFails, soupFails)
    \/ \E c \in CallIds, sid \in SessionIds : W_GetPageContent(c, sid)
    \/ \E c \in CallIds, sid \in SessionIds, act \in ActionTypes :
          E_Interact(c, sid, act)
    \/ E_ListSessions
    \/ \E c \in CallIds, sid \in SessionIds, fails \in BOOLEAN :
          W_CloseSession(c, sid, fails)
    \/ \E r \in ReaperIds, F \in SUBSET SessionIds : W_Cleanup(r, F)
    \/ \E F \in SUBSET SessionIds : W_Stop(F)
    \/ Tick

\* ==================================================================== spec
Services == {"working", "browser", "advanced"}

\* the services as constructed, and no resolve call
Constructed ==
    /\ sessions = <<>>
    /\ is_running = FALSE
    /\ browser = "none"
    /\ nextId = 0
    /\ calls = [c \in CallIds |-> IdleCall]
    /\ reapers = [r \in ReaperIds |-> NoTask]
    /\ stopper = NoTask
    /\ now = 0
    /\ releases = [i \in SessionIds |-> 0]
    /\ removed = {}
    /\ leaked = {}
    /\ ops = 0
    /\ rpc = "idle"
    /\ rlog = <<>>
    /\ rres = NoOutcome
    /\ reply = NoReply
    /\ adv_sessions = <<>>
    /\ cosmos = NewCosmos(TRUE)
    /\ cache = <<>>

Init ==
    /\ svc \in Services
    /\ rurl = <<>>
    /\ Constructed

Next ==
    \/ WorkingNext
    \/ BrowserNext
    \/ AdvancedNext
    \/ Tick

Spec == Init /\ [][Next]_vars

\* the working service within one reaper period: the clock stands still
InitNavigate ==
    /\ svc = "working"
    /\ rurl = <<>>
    /\ Constructed

SpecNavigate == InitNavigate /\ [][WorkingNext]_vars

\* the API process as started
InitApi ==
    /\ svc = "api"
    /\ rurl = <<>>
    /\ Constructed

SpecApi == InitApi /\ [][ApiNext]_vars

\* the working service with two sessions created, and the requests that
\* render pages in them
InitPair ==
    /\ svc = "working"
    /\ rurl = <<>>
    /\ now = 0
    /\ sessions = [i \in SessionIds |-> NewSession]
    /\ nextId = MaxSessions
    /\ is_running = FALSE
    /\ browser = "none"
    /\ calls = [c \in CallIds |-> IdleCall]
    /\ reapers = [r \in ReaperIds |-> NoTask]
    /\ stopper = NoTask
    /\ releases = [i \in SessionIds |-> 0]
    /\ removed = {}
    /\ leaked = {}
    /\ ops = 0
    /\ rpc = "idle"
    /\ rlog = <<>>
    /\ rres = NoOutcome
    /\ reply = NoReply
    /\ adv_sessions = <<>>
    /\ cosmos = NewCosmos(TRUE)
    /\ cache = <<>>

PairNext ==
    \/ \E c \in CallIds, sid \in SessionIds, url \in NavUrls :
          W_NavigateStart(c, sid, url)
    \/ \E c \in CallIds, out \in JsOutcomes : W_NavigateS1(c, out)
    \/ \E c \in CallIds, out \in JsOutcomes : W_NavigateS1Close(c, out)
    \/ \E c \in CallIds : W_NavigateS2(c)
    \/ \E c \in CallIds, status \in ProxyStatuses, hasHead \in BOOLEAN,
          pilFails \in BOOLEAN, soupFails \in BOOLEAN :
          W_NavigateS2Get(c, status, hasHead, pilFails, soupFails)
    \/ \E c \in CallIds, sid \in SessionIds : W_GetPageContent(c, sid)

SpecPair == InitPair /\ [][PairNext]_vars

\* one resolve_content call on each locator
InitResolver ==
    /\ svc = "resolver"
    /\ rurl \in Locators
    /\ Constructed

SpecResolver == InitResolver /\ [][ResolverNext]_vars

\* a CosmosService on a testnet endpoint (the default) or on another one
InitLedger ==
    /\ svc = "cosmos"
    /\ cosmos \in {NewCosmos(testnet) : testnet \in BOOLEAN}
    /\ rurl = <<>>
    /\ now = 0
    /\ sessions = <<>>
    /\ nextId = 0
    /\ is_running = FALSE
    /\ browser = "none"
    /\ calls = [c \in CallIds |-> IdleCall]
    /\ reapers = [r \in ReaperIds |-> NoTask]
    /\ stopper = NoTask
    /\ releases = [i \in SessionIds |-> 0]
    /\ removed = {}
    /\ leaked = {}
    /\ ops = 0
    /\ rpc = "idle"
    /\ rlog = <<>>
    /\ rres = NoOutcome
    /\ reply = NoReply
    /\ adv_sessions = <<>>
    /\ cache = <<>>

SpecLedger == InitLedger /\ [][LedgerNext]_vars

\* ================================================================== claims
StrategyLabels == {"javascript_rendering", "advanced_proxy", "synthetic_page"}

NavigateDone(c) ==
    /\ svc = "working"
    /\ calls[c].op = "navigate"
    /\ calls[c].pc = "done"

\* C1: every navigate on a session that is in the session map returns
\* success = true with exactly one of the three strategy labels.
C1_NavigateAlwaysSucceeds ==
    \A c \in CallIds :
        (NavigateDone(c) /\ calls[c].found) =>
            /\ calls[c].result.success
            /\ calls[c].result.method \in StrategyLabels

\* C2: within one navigate call the strategies are attempted in the order
\* script render, proxy fetch, synthetic placeholder; a strategy is attempted
\* exactly when every earlier one has failed; the result returned is that of
\* the first strategy that succeeded, and nothing is attempted after it.
C2_StrategyOrder ==
    \A c \in CallIds :
        (svc = "working" /\ calls[c].op = "navigate" /\ calls[c].found) =>
            LET a == calls[c].attempted
                o == calls[c].outcomes
                order == <<"javascript_rendering", "advanced_proxy",
                           "synthetic_page">>
            IN /\ Len(a) \in 1..3
               /\ \A i \in 1..Len(a) : a[i] = order[i]
               /\ Len(o) \in {Len(a) - 1, Len(a)}
               /\ \A i \in 1..Len(o) : i < Len(a) => ~o[i]
               /\ InFlight(c) <=> Len(o) = Len(a) - 1
               /\ calls[c].pc = "done" =>
                     /\ Len(a) < 3 => o[Len(a)]
                     /\ o[Len(a)] =>
                           /\ calls[c].result.success
                           /\ calls[c].result.method = a[Len(a)]
                     /\ calls[c].result.success => o[Len(a)]

\* a navigate whose first two strategies failed and whose third succeeded
C2_Witness ==
    \E c \in CallIds :
        /\ NavigateDone(c)
        /\ calls[c].outcomes = <<FALSE, FALSE, TRUE>>
        /\ calls[c].result.method = "synthetic_page"

\* C3: the synthetic placeholder strategy never returns failure.
C3_SyntheticNeverFails ==
    \A c \in CallIds :
        (NavigateDone(c) /\ Len(calls[c].attempted) = 3) =>
            /\ calls[c].outcomes[3]
            /\ calls[c].result.success

\* C4: close(id) is idempotent: a close of an id that was never created, or
\* of an id for which an earlier close of the live session has already
\* returned, returns success and leaves the session map and the handles as
\* the first call left them.
C4_CloseIdempotent ==
    [][\A c \in CallIds :
          (/\ calls[c].pc # "done"
           /\ calls'[c].op = "close"
           /\ calls'[c].pc = "done"
           /\ ~calls'[c].found \/ calls'[c].again)
          => /\ calls'[c].result.success
             /\ sessions' = sessions
             /\ releases' = releases]_vars

SessionOps == {"navigate", "interact", "read"}

\* C5: CLOSED is terminal: an id that has left the session map never comes
\* back into it, and a navigate, interact or read issued with an id that is
\* not in the map (closed by close or by the reaper, or never created) has
\* returned the session-not-found outcome without attempting a strategy or
\* an engine call.
C5_ClosedIsTerminal ==
    /\ removed \cap DOMAIN sessions = {}
    /\ \A c \in CallIds :
          (calls[c].op \in SessionOps /\ ~calls[c].found) =>
              /\ calls[c].pc = "done"
              /\ calls[c].result = NotFoundResult
              /\ calls[c].attempted = <<>>

\* a session that the reaper removed while no close call was made, and a
\* later operation on its id that came back not found
C5_Witness ==
    \E c \in CallIds :
        /\ calls[c].op \in SessionOps
        /\ calls[c].pc = "done"
        /\ calls[c].sid \in removed
        /\ ~calls[c].found
        /\ calls[c].result = NotFoundResult
        /\ \A d \in CallIds : calls[d].op # "close"
        /\ is_running

\* the step in which a cleanup task starts to close session sid: it calls
\* close_session(sid), which issues the release, or removes it at once
ReaperCloses(sid) ==
    \/ \E r \in ReaperIds :
          /\ reapers'[r].pc = "closing"
          /\ reapers'[r].cur = sid
          /\ reapers[r].pc # "closing" \/ reapers[r].cur # sid
    \/ /\ reapers' # reapers
       /\ \A r \in ReaperIds : reapers[r].pc # "closing"
       /\ sid \in DOMAIN sessions \ DOMAIN sessions'

\* C6: the reaper never closes a session whose idle time is within the idle
\* timeout at the moment it is closed, also when the session was found
\* expired at the start of the scan and was used before the reaper reached it.
C6_ReaperOnlyClosesExpired ==
    [][\A sid \in SessionIds :
          ReaperCloses(sid) =>
              /\ sid \in DOMAIN sessions
              /\ now - sessions[sid].last_activity > TimeoutMinutes]_vars

\* C7: while the service is running, a session whose idle time exceeds the
\* idle timeout is closed and removed by the reaper within one scan interval:
\* whenever the reaper is asleep between two scans, no session in the map has
\* been idle for longer than the timeout plus one scan interval, and none
\* that the scan just made found expired is still in the map.
C7_ExpiredReapedWithinScan ==
    \A r \in ReaperIds :
        (is_running /\ reapers[r].pc = "sleep") =>
            \A sid \in DOMAIN sessions :
                /\ now - sessions[sid].last_activity
                      <= TimeoutMinutes + ScanMinutes
                /\ reapers[r].wake = now + ScanMinutes =>
                      now - sessions[sid].last_activity <= TimeoutMinutes

\* C8: under any interleaving of close, the reaper and stop, the handle of a
\* session is released exactly once: at least once when the session has left
\* the map, and never twice.
C8_ReleasedExactlyOnce ==
    \A sid \in SessionIds :
        /\ releases[sid] <= 1
        /\ sid \in removed => releases[sid] >= 1

\* C9: operations on the same session are serialized: no two of navigate,
\* interact, read and close on one session id are in progress at once.
C9_SessionOpsSerialized ==
    \A c, d \in CallIds :
        (c # d /\ InFlight(c) /\ InFlight(d)
              /\ calls[c].op # "create" /\ calls[d].op # "create")
            => calls[c].sid # calls[d].sid

\* C10: resolve_content classifies the locator by the first rule that
\* matches, in the order: begins with ipfs:// (content-addressed, the content
\* adapter is called first), else ends with .prv (name-addressed, the ledger
\* is called first), else begins with http:// or https:// (web-addressed,
\* the web fetch is called), else unsupported (no adapter is called and the
\* call fails).
C10_ClassificationOrder ==
    (svc = "resolver" /\ rpc # "idle") =>
        LET first == IF rlog = <<>> THEN "none" ELSE rlog[1].adapter IN
        IF Len(rurl) >= 1 /\ rurl[1] = "ipfs://" THEN first = "ipfs"
        ELSE IF Len(rurl) >= 1 /\ rurl[Len(rurl)] = ".prv"
             THEN first = "cosmos"
        ELSE IF Len(rurl) >= 1 /\ rurl[1] \in {"http://", "https://"}
             THEN first = "http"
        ELSE first = "none" /\ rpc = "done" /\ rres.status # HttpOk

\* 'https://x.prv' has been classified name-addressed and 'ipfs://x.prv'
\* would be content-addressed: here the first of the two
C10_Witness ==
    /\ rurl = <<"https://", "x", ".prv">>
    /\ rpc = "cosmos"
    /\ rlog = <<AdapterCall("cosmos", rurl)>>

\* the outcomes of an adapter call that are failures of the adapter
AdapterFailures == {"failed", "not_found", "transport", "status"}

\* a locator that matches none of the three classification rules
Unsupported(url) ==
    /\ ~(Len(url) >= 1 /\ url[1] = "ipfs://")
    /\ ~(Len(url) >= 1 /\ url[Len(url)] = ".prv")
    /\ ~(Len(url) >= 1 /\ url[1] \in {"http://", "https://"})

ClientErrors == 400..499

\* C11: a resolve call on an unsupported locator calls no adapter and ends
\* with a client error (a 4xx status), which is not the error that adapter
\* failures produce.
C11_UnsupportedIsInvalidLocator ==
    (svc = "resolver" /\ rpc = "done" /\ Unsupported(rurl)) =>
        /\ rlog = <<>>
        /\ rres.status \in ClientErrors
        /\ <<rres.status, rres.error>> #
              <<ResolutionError.status, ResolutionError.error>>

\* C12: when the ledger has no entry for a name-addressed locator, the
\* response of the resolve endpoint is a success with source "prv", media
\* type text/html, the not-registered notice as its body, and the
\* name-not-registered marker.
C12_NameMissIsMarkedSuccess ==
    (/\ svc = "resolver"
     /\ reply # NoReply
     /\ rlog # <<>>
     /\ rlog[1].adapter = "cosmos"
     /\ rlog[1].out = "unmapped") =>
        /\ reply.status = HttpOk
        /\ reply.source = "prv"
        /\ reply.content_type = "text/html"
        /\ reply.content = NotFoundNotice
        /\ reply.metadata = <<"domain_not_found">>

\* C13: a resolve call in which an adapter call failed ends with an error,
\* and the placeholder success is produced only when the ledger answered
\* that the name has no mapping.
C13_AdapterFailurePropagates ==
    (svc = "resolver" /\ rpc = "done") =>
        /\ (\E i \in 1..Len(rlog) : rlog[i].out \in AdapterFailures) =>
              rres.status # HttpOk
        /\ rres.error = "domain_not_found" =>
              (rlog # <<>> /\ rlog[1].out = "unmapped")

\* C14: when the ledger maps a name to a content id, the next and only
\* other adapter call fetches exactly that content id, and on its success
\* the result carries the fetched content with source "prv" and the owner
\* and registration height of the mapping.
C14_NameChainsToMappedContent ==
    (/\ svc = "resolver"
     /\ rlog # <<>>
     /\ rlog[1].adapter = "cosmos"
     /\ rlog[1].out = "mapped"
     /\ rlog[1].ret.hash # NoHash) =>
        /\ Len(rlog) = 2
        /\ rlog[2].adapter = "ipfs"
        /\ rlog[2].arg = rlog[1].ret.hash
        /\ (rpc = "done" /\ rlog[2].out = "ok") =>
              /\ rres.status = HttpOk
              /\ rres.source = "prv"
              /\ rres.content = rlog[2].ret.content
              /\ rres.owner = rlog[1].ret.owner
              /\ rres.height = rlog[1].ret.height
              /\ rres.hash = rlog[1].ret.hash

C14_Witness ==
    /\ svc = "resolver"
    /\ rpc = "done"
    /\ rurl = <<"x", ".prv">>
    /\ Len(rlog) = 2
    /\ rlog[1].out = "mapped"
    /\ rlog[1].ret.hash = <<"QmB">>
    /\ rlog[2].arg = <<"QmB">>
    /\ rlog[2].out = "ok"
    /\ rres.content = "bye"
    /\ rres.owner = "cosmos1b"

\* C15: a resolve call on a locator that begins with ipfs:// calls the
\* content adapter once, with the text between that prefix and the next
\* "/", calls no other adapter, and on success returns the adapter's
\* content with source "ipfs".
C15_ContentAddressedDelegation ==
    (/\ svc = "resolver"
     /\ rpc = "done"
     /\ Len(rurl) >= 1
     /\ rurl[1] = "ipfs://") =>
        /\ Len(rlog) = 1
        /\ rlog[1].adapter = "ipfs"
        /\ rlog[1].arg = FirstSegment(Tail(rurl))
        /\ rlog[1].out = "ok" =>
              /\ rres.status = HttpOk
              /\ rres.source = "ipfs"
              /\ rres.content = rlog[1].ret.content

\* C16: the response of the resolve endpoint for a web-addressed locator
\* reports the requested locator unchanged and, in another field, the
\* address of the last response of the fetch.
C16_FinalAddressRecorded ==
    (/\ svc = "resolver"
     /\ reply.status = HttpOk
     /\ rlog # <<>>
     /\ rlog[1].adapter = "http") =>
        /\ reply.url = rurl
        /\ reply.metadata = rlog[1].ret.url

\* C17: for a content-addressed locator, the outcome when the store says the
\* content id does not exist differs in status or error kind from the
\* outcome of a transport failure of the store call.
C17_NotFoundDistinctFromBroken ==
    (/\ svc = "resolver"
     /\ rpc = "done"
     /\ Len(rlog) = 1
     /\ rlog[1].adapter = "ipfs"
     /\ rlog[1].out = "not_found") =>
        LET broken == IpfsResult("transport", "hello", "text/plain",
                                 rlog[1].arg)
        IN <<rres.status, rres.error>> # <<broken.status, broken.error>>

\* every operation that is carried out against one session
ActivityOps == {"navigate", "interact", "read", "script", "oauth"}

\* C20: last_activity of a session never decreases, and each operation that
\* starts against a session in the map sets it to the current time.
C20_ActivityMonotoneAndUpdated ==
    [][\A sid \in DOMAIN sessions \cap DOMAIN sessions' :
          /\ sessions'[sid].last_activity >= sessions[sid].last_activity
          /\ \A c \in CallIds :
                (/\ ops' = ops + 1
                 /\ calls'[c] # calls[c]
                 /\ calls'[c].op \in ActivityOps
                 /\ calls'[c].sid = sid) =>
                    sessions'[sid].last_activity = now']_vars

\* C18: an interact request for a session id that the create-session call
\* returned and that has not been closed is not answered session-not-found
\* and sets that session's last_activity to the current time.
C18_InteractReachesCreatedSession ==
    [][\A c \in CallIds :
          (/\ svc = "api"
           /\ calls'[c] # calls[c]
           /\ calls'[c].op = "interact"
           /\ calls'[c].sid \in DOMAIN sessions) =>
              /\ calls'[c].result # NotFoundResult
              /\ sessions'[calls'[c].sid].last_activity = now']_vars

\* C19: the answer of the list-sessions call has exactly one entry for each
\* session that was created and is not yet closed or reaped, and none for
\* any other id.
C19_ListShowsLiveSessions ==
    [][(svc = "api" /\ reply' # reply) =>
          /\ {e.session_id : e \in reply'.sessions} = DOMAIN sessions'
          /\ Cardinality(reply'.sessions) = Cardinality(DOMAIN sessions')]_vars

\* C21: every session in the session map holds its primary engine handle,
\* acquired and not released; no release call has completed on it.
C21_LiveSessionsHoldHandle ==
    \A sid \in DOMAIN sessions :
        /\ sessions[sid].driver # "quit"
        /\ releases[sid] = 0

\* C22: a create that fails releases every resource it had acquired
\* (display, driver, context) before the error is surfaced: none is left
\* unreleased.
C22_FailedCreateReleasesAll == leaked = {}

\* C23: an engine fault in a navigate or interact of the advanced or the
\* browser service ends that call with a failed result and nothing else: the
\* session stays in the map, no release of its handle happens and no other
\* call is touched; a navigate or interact that starts on the id afterwards
\* finds the session and drives its handle.
C23_FaultFailsOneCallOnly ==
    [][\A c \in CallIds :
          /\ (/\ svc \in {"advanced", "browser"}
              /\ calls[c].pc # "done"
              /\ calls'[c].pc = "done"
              /\ calls'[c].op \in {"navigate", "interact"}
              /\ calls'[c].result = ErrorResult
              /\ calls'[c].sid \in DOMAIN sessions) =>
                 /\ ~calls'[c].result.success
                 /\ calls'[c].sid \in DOMAIN sessions'
                 /\ sessions'[calls'[c].sid].driver =
                        sessions[calls'[c].sid].driver
                 /\ releases' = releases
                 /\ removed' = removed
                 /\ \A d \in CallIds \ {c} : calls'[d] = calls[d]
          /\ (/\ svc \in {"advanced", "browser"}
              /\ ~InFlight(c)
              /\ calls'[c] # calls[c]
              /\ calls'[c].refault
              /\ calls'[c].sid \in DOMAIN sessions) =>
                 /\ calls'[c].found
                 /\ calls'[c].result # NotFoundResult
                 /\ calls'[c].attempted # <<>>]_vars

\* a navigate or interact that started after a fault on the same session
\* has returned success, the session still in the map with its handle
C23_Witness ==
    \E c \in CallIds :
        /\ svc \in {"advanced", "browser"}
        /\ calls[c].refault
        /\ calls[c].pc = "done"
        /\ calls[c].result.success
        /\ calls[c].sid \in DOMAIN sessions
        /\ sessions[calls[c].sid].driver = "open"
        /\ releases[calls[c].sid] = 0

\* C24: a session whose engine handle is lost is queued for reaping: the
\* scan of the reaper that follows the loss closes it and takes it out of
\* the session map.
C24_LostHandleIsReaped ==
    [][\A r \in ReaperIds :
          (/\ svc = "advanced"
           /\ is_running
           /\ reapers'[r].pc = "sleep"
           /\ reapers'[r].wake > reapers[r].wake) =>
              \A sid \in DOMAIN sessions :
                  sessions[sid].driver = "dead" =>
                      sid \notin DOMAIN sessions']_vars

\* C25: when a navigate of the working service returns success for a
\* session that is in the map, the session's current address is the address
\* that was asked for and its stored content is the content of the strategy
\* that produced the result.
C25_SuccessStoresWinningPage ==
    [][\A c \in CallIds :
          (/\ svc \in WorkingHosts
           /\ calls[c].pc # "done"
           /\ calls'[c].pc = "done"
           /\ calls'[c].op = "navigate"
           /\ calls'[c].result.success
           /\ calls'[c].sid \in DOMAIN sessions') =>
              /\ sessions'[calls'[c].sid].current_url = calls'[c].url
              /\ sessions'[calls'[c].sid].current_content =
                     calls'[c].result.method]_vars

\* C26: a read of the working service issued after a successful navigate on
\* the session has returned, with the page that navigate stored still in the
\* session and no other call on the session in flight, returns the address
\* and the screenshot of that navigate and leaves the session's address,
\* content and handles as they were.
C26_ReadReturnsNavigatedPage ==
    [][\A c, d \in CallIds :
          (/\ svc \in WorkingHosts
           /\ NoCallInFlight
           /\ calls[d].op = "navigate"
           /\ calls[d].pc = "done"
           /\ calls[d].result.success
           /\ calls[d].sid \in DOMAIN sessions
           /\ sessions[calls[d].sid].current_url = calls[d].url
           /\ sessions[calls[d].sid].current_content = calls[d].result.method
           /\ calls'[c] # calls[c]
           /\ calls'[c].op = "read"
           /\ calls'[c].sid = calls[d].sid) =>
              /\ calls'[c].result.success
              /\ calls'[c].seen.url = calls[d].url
              /\ calls'[c].seen.screenshot = Screenshot(calls[d].result.method)
              /\ sessions'[calls[d].sid].current_url = calls[d].url
              /\ sessions'[calls[d].sid].current_content =
                     calls[d].result.method
              /\ sessions'[calls[d].sid].driver =
                     sessions[calls[d].sid].driver]_vars

\* C27: when a navigate, interact or read on a session of the advanced
\* service returns success, every secondary handle the session tracks is a window
\* the engine reports open.
C27_TrackedPopupsAreOpen ==
    [][\A c \in CallIds :
          (/\ svc = "advanced"
           /\ calls[c].pc # "done"
           /\ calls'[c].pc = "done"
           /\ calls'[c].op \in {"navigate", "interact", "read"}
           /\ calls'[c].result.success
           /\ calls'[c].sid \in DOMAIN sessions'
           /\ sessions'[calls'[c].sid].driver = "open") =>
              Range(sessions'[calls'[c].sid].popup_windows) \subseteq
                  Range(sessions'[calls'[c].sid].windows)]_vars

\* C28: a read on a session of the advanced service whose engine answers
\* returns success, and afterwards no tracked secondary handle refers to a
\* window that is closed.
C28_ReadPrunesAllClosed ==
    [][\A c \in CallIds :
          (/\ svc = "advanced"
           /\ calls'[c] # calls[c]
           /\ calls'[c].op = "read"
           /\ calls'[c].pc = "done"
           /\ calls'[c].result.success) =>
              Range(sessions'[calls'[c].sid].popup_windows) \subseteq
                  Range(sessions'[calls'[c].sid].windows)]_vars

\* C29: when a close of a session that was in the map returns, the session
\* is not in the map and a release of its primary handle has completed.
C29_CloseAlwaysRemoves ==
    [][\A c \in CallIds :
          (/\ calls[c].pc # "done"
           /\ calls'[c].pc = "done"
           /\ calls'[c].op = "close"
           /\ calls'[c].found) =>
              /\ calls'[c].sid \notin DOMAIN sessions'
              /\ releases'[calls'[c].sid] > 0]_vars

\* C30: in one scan of the reaper of the working or the advanced service,
\* every session that was expired when the scan began is closed and out of
\* the map unless its own close failed and was logged, and the reaper goes
\* on to its next sleep.
C30_ReapFailuresAreIsolated ==
    [][\A r \in ReaperIds :
          (/\ svc \in {"working", "advanced"}
           /\ is_running
           /\ reapers[r].pc \in {"ready", "sleep"}
           /\ reapers'[r] # reapers[r]) =>
              /\ reapers'[r].pc = "sleep"
              /\ reapers'[r].wake = now + ScanMinutes
              /\ \A i \in DOMAIN sessions :
                     IsExpired(sessions[i]) =>
                         \/ i \notin DOMAIN sessions'
                         \/ i \in reapers'[r].logged]_vars

\* a scan in which the close of one expired session failed and another
\* expired session was closed
C30_Witness ==
    \E r \in ReaperIds :
        /\ svc \in {"working", "advanced"}
        /\ is_running
        /\ reapers[r].pc = "sleep"
        /\ reapers[r].logged # {}
        /\ reapers[r].logged \subseteq DOMAIN sessions
        /\ removed # {}
        /\ \A c \in CallIds : calls[c].op # "close"

\* C31: while a navigate of the working service is waiting for the response
\* of its network call, a navigate in flight on another session id can take
\* its next step.
C31_NavigatesProgressIndependently ==
    \A c, d \in CallIds :
        (/\ svc \in WorkingHosts
         /\ calls[c].op = "navigate"
         /\ calls[c].pc = "s2get"
         /\ calls[d].op = "navigate"
         /\ calls[d].sid # calls[c].sid
         /\ calls[d].pc \in {"s1", "s1c", "s2"}) =>
            ENABLED (\/ \E out \in JsOutcomes : W_NavigateS1(d, out)
                     \/ \E out \in JsOutcomes : W_NavigateS1Close(d, out)
                     \/ W_NavigateS2(d))

\* C32: the proxy fetch strategy of the working service succeeds when the
\* response has a 2xx status, and fails when the status is not 2xx or the
\* transport failed (status 0).
C32_ProxySucceedsOnEvery2xx ==
    [][\A c \in CallIds :
          (/\ svc \in WorkingHosts
           /\ calls[c].pc = "s2get"
           /\ calls'[c].pc = "done") =>
              calls'[c].outcomes[Len(calls[c].outcomes) + 1] =
                  (calls'[c].status \in 200..299)]_vars

\* C33: a navigate, interact or read of the advanced service that is in
\* flight issues a further engine call on the session's handle only while
\* no release of that handle has completed.
C33_NoEngineCallAfterRelease ==
    [][\A c \in CallIds :
          (/\ svc = "advanced"
           /\ InFlight(c)
           /\ calls[c].op \in {"navigate", "interact", "read"}
           /\ Len(calls'[c].attempted) > Len(calls[c].attempted)) =>
              releases[calls[c].sid] = 0]_vars

\* C34: when a navigate, interact, read or OAuth-popup handling of the
\* advanced service returns, with success or with failure, on a session
\* that is in the map with its driver running, the driver's focused window
\* is the main window.
C34_FocusOnMainAfterReturn ==
    [][\A c \in CallIds :
          (/\ svc = "advanced"
           /\ calls[c].pc # "done"
           /\ calls'[c].pc = "done"
           /\ calls'[c].op \in {"navigate", "interact", "read", "oauth"}
           /\ calls'[c].sid \in DOMAIN sessions'
           /\ sessions'[calls'[c].sid].driver = "open") =>
              sessions'[calls'[c].sid].focus = 0]_vars

\* C35: an interact with popup_action 'screenshot' on a tracked popup that
\* returns success returns the screenshot of that popup together with the
\* title and address of that same popup, and leaves the tracked popup list
\* as it was.
C35_PopupScreenshotDescribesPopup ==
    [][\A c \in CallIds :
          (/\ svc = "advanced"
           /\ ~InFlight(c)
           /\ calls'[c] # calls[c]
           /\ calls'[c].op = "interact"
           /\ calls'[c].attempted = <<"screenshot">>
           /\ calls'[c].pc = "done"
           /\ calls'[c].result.success) =>
              /\ calls'[c].popup.shot \in
                     Range(sessions[calls'[c].sid].popup_windows)
              /\ calls'[c].popup.info = calls'[c].popup.shot
              /\ sessions'[calls'[c].sid].popup_windows =
                     sessions[calls'[c].sid].popup_windows]_vars

\* C36: when a navigate of the browser or the advanced service returns a
\* failed result for a session that is in the map, the session's current_url
\* is what it was when the call started.
C36_FailedNavigateKeepsUrl ==
    [][\A c \in CallIds :
          (/\ svc \in {"browser", "advanced"}
           /\ calls[c].pc # "done"
           /\ calls'[c].pc = "done"
           /\ calls'[c].op = "navigate"
           /\ ~calls'[c].result.success
           /\ calls'[c].found
           /\ calls'[c].sid \in DOMAIN sessions') =>
              sessions'[calls'[c].sid].current_url = calls'[c].url0]_vars

\* C37: at any time at most one cleanup_expired_sessions loop of the
\* service is alive.
C37_AtMostOneReaper ==
    Cardinality({r \in ReaperIds : reapers[r].pc # "none"}) <= 1

\* C38: when stop() returns (the working and the advanced service stop in
\* one step, the browser service when its stop coroutine has made its last
\* call), the session map is empty and every session that was ever in the
\* map has had its handle released.
C38_StopLeavesNothing ==
    [][(\/ /\ svc \in {"working", "advanced"}
           /\ is_running
           /\ ~is_running'
        \/ /\ svc = "browser"
           /\ stopper.pc = "final"
           /\ stopper'.pc = "none") =>
          /\ DOMAIN sessions' = {}
          /\ \A i \in removed' : releases'[i] > 0]_vars

\* C39: when resolve_prv_domain(name) returns and an earlier
\* register_domain(name, content_hash, owner) has returned success (no
\* other registration of that name being in progress), it returns a mapping
\* that carries that content hash and that owner.
C39_RegisteredDomainResolves ==
    [][(/\ svc = "cosmos"
        /\ cosmos.res.pc = "query"
        /\ cosmos'.res.pc = "done"
        /\ cosmos.res.name \in DOMAIN cosmos.registered
        /\ cosmos.reg.pc = "idle") =>
          LET want == cosmos.registered[cosmos.res.name]
              got == cosmos'.res.result
          IN /\ got.found
             /\ got.ipfs_hash = want.content_hash
             /\ got.owner = want.owner]_vars

\* C40: the step in which the resolve endpoint answers adds exactly one
\* record, the response it returns, to the content cache when it returns a
\* result, and leaves the cache as it was when the resolution failed; no
\* other step of a resolution touches the cache.
C40_OneCacheRecordPerResult ==
    [][IF svc = "resolver" /\ reply = NoReply /\ reply' # NoReply
       THEN /\ reply'.status = HttpOk => cache' = Append(cache, reply')
            /\ rres.status # HttpOk => cache' = cache
       ELSE cache' = cache]_vars

\* a resolution returned a result and the cache holds that one record
C40_Witness ==
    /\ svc = "resolver"
    /\ rres.status = HttpOk
    /\ reply # NoReply
    /\ reply.status = HttpOk
    /\ cache = <<reply>>

====
